---- MODULE Spec2Model ----
(***************************************************************************)
(* A model of the sol2ink lowering engine (src/src/assembler.rs): the      *)
(* identifier normalizer, the declaration assemblers, the statement and    *)
(* expression lowering, and the behaviour of the target code they emit.    *)
(*                                                                         *)
(* Representation.  A Rust String is the sequence of its characters        *)
(* (<<"f","n">> is "fn").  A TokenStream is a sequence of tokens; a token  *)
(* is a sequence of strings whose concatenation is the token's text: a     *)
(* token written literally inside quote! is the one-element sequence       *)
(* holding its text (<<"loop">>), a token built from a name with           *)
(* format_ident! or TokenStream::from_str is the name's characters.        *)
(* Delimited groups are flattened to their delimiters.                     *)
(***************************************************************************)
EXTENDS Integers, Sequences, FiniteSets, TLC

VARIABLES
    op,       \* the assembler / lowering entry point that ran last
    arg,      \* its IR input
    out,      \* what it returned (a String or a TokenStream)
    status,   \* "idle" before any call, "done", or "aborted" (the call panicked)
    prev,     \* the call before the last one: [op, arg, out, status]
    run       \* the emitted code being executed (see the Run section)

vars == <<op, arg, out, status, prev, run>>

(***************************************************************************)
(* Bounds of the model.                                                    *)
(***************************************************************************)
MaxNameLen == 3      \* longest raw name over NameAlphabet
MaxFields == 2       \* longest contract field list
MaxKeys == 2         \* longest key list of a map subscript
MaxCount == 2        \* largest integer argument of a run
MaxSteps == 24       \* longest run

\* The width of the integers of a run: Type::Uint(8) is u8.
IntBits == 8

(***************************************************************************)
(* Characters and strings.                                                 *)
(***************************************************************************)
Uppers == <<"A","B","C","D","E","F","G","H","I","J","K","L","M",
            "N","O","P","Q","R","S","T","U","V","W","X","Y","Z">>
Lowers == <<"a","b","c","d","e","f","g","h","i","j","k","l","m",
            "n","o","p","q","r","s","t","u","v","w","x","y","z">>
Digits == {"0","1","2","3","4","5","6","7","8","9"}

IsUpper(c) == \E i \in DOMAIN Uppers : Uppers[i] = c
IsLower(c) == \E i \in DOMAIN Lowers : Lowers[i] = c
IsDigit(c) == c \in Digits
ToLowerChar(c) == IF IsUpper(c) THEN Lowers[CHOOSE i \in DOMAIN Uppers : Uppers[i] = c] ELSE c
ToUpperChar(c) == IF IsLower(c) THEN Uppers[CHOOSE i \in DOMAIN Lowers : Lowers[i] = c] ELSE c
ToLower(s) == [i \in DOMAIN s |-> ToLowerChar(s[i])]
ToUpper(s) == [i \in DOMAIN s |-> ToUpperChar(s[i])]

\* const RUST_KEYWORDS: [&str; 27]
RUST_KEYWORDS == {
    <<"c","o","n","s","t">>, <<"c","r","a","t","e">>, <<"e","x","t","e","r","n">>, <<"f","n">>,
    <<"i","m","p","l">>, <<"i","n">>, <<"l","o","o","p">>, <<"m","o","d">>,
    <<"m","o","v","e">>, <<"m","u","t">>, <<"p","u","b">>, <<"r","e","f">>,
    <<"s","e","l","f">>, <<"S","e","l","f">>, <<"t","r","a","i","t">>,
    <<"u","n","s","a","f","e">>, <<"u","s","e">>, <<"w","h","e","r","e">>,
    <<"b","e","c","o","m","e">>, <<"b","o","x">>, <<"f","i","n","a","l">>, <<"p","r","i","v">>,
    <<"u","n","s","i","z","e","d">>, <<"a","s","y","n","c">>, <<"a","w","a","i","t">>,
    <<"d","y","n">>, <<"u","n","i","o","n">>
}

KeywordSuffix == <<"_","i","s","_","r","u","s","t","_","k","e","y","w","o","r","d">>

(***************************************************************************)
(* convert_case: to_case(Snake), to_case(UpperSnake), to_case(Pascal).     *)
(* A string is split into words at the default boundaries (a delimiter     *)
(* "_", "-" or " " is consumed; a lower-upper, letter-digit, digit-letter  *)
(* or acronym boundary splits between characters), empty words are         *)
(* dropped, every word is cased and the words are joined.                  *)
(***************************************************************************)
IsDelimiter(c) == c \in {"_", "-", " "}

DetectTwo(c, d) ==
    \/ IsLower(c) /\ IsUpper(d)
    \/ IsUpper(c) /\ IsDigit(d)
    \/ IsDigit(c) /\ IsUpper(d)
    \/ IsDigit(c) /\ IsLower(d)
    \/ IsLower(c) /\ IsDigit(d)

DetectThree(c, d, e) == IsUpper(c) /\ IsUpper(d) /\ IsLower(e)

\* "consume": split here and drop the character; "keep": split before the
\* character; "none": no split.
SplitPoint(s, i) ==
    IF IsDelimiter(s[i]) THEN "consume"
    ELSE IF i >= 2 /\ DetectTwo(s[i-1], s[i]) THEN "keep"
    ELSE IF i >= 2 /\ i + 1 <= Len(s) /\ DetectThree(s[i-1], s[i], s[i+1]) THEN "keep"
    ELSE "none"

RECURSIVE SplitFrom(_, _, _, _)
SplitFrom(s, i, word, words) ==
    IF i > Len(s) THEN Append(words, word)
    ELSE CASE SplitPoint(s, i) = "none"    -> SplitFrom(s, i + 1, Append(word, s[i]), words)
           [] SplitPoint(s, i) = "consume" -> SplitFrom(s, i + 1, <<>>, Append(words, word))
           [] SplitPoint(s, i) = "keep"    -> SplitFrom(s, i + 1, <<s[i]>>, Append(words, word))

Split(s) == SelectSeq(SplitFrom(s, 1, <<>>, <<>>), LAMBDA w : w # <<>>)

RECURSIVE Join(_, _)
Join(words, sep) ==
    IF words = <<>> THEN <<>>
    ELSE IF Len(words) = 1 THEN words[1]
    ELSE words[1] \o sep \o Join(Tail(words), sep)

ToSnake(s) == Join([i \in DOMAIN Split(s) |-> ToLower(Split(s)[i])], <<"_">>)

(***************************************************************************)
(* The identifier normalizer.                                              *)
(***************************************************************************)
format_expression(expression_raw) ==
    LET output == IF expression_raw \in RUST_KEYWORDS
                  THEN expression_raw \o KeywordSuffix
                  ELSE expression_raw
    IN  IF output = <<"_">> THEN output ELSE ToSnake(output)

(***************************************************************************)
(* Token streams.                                                          *)
(***************************************************************************)
\* The tokens of a quote!( ... ) written literally.
Q(texts) == [i \in DOMAIN texts |-> <<texts[i]>>]

\* TokenStream::from_str(name) / format_ident!("{}", name): one identifier
\* token; the empty string parses to the empty stream.
Ident(name) == IF name = <<>> THEN <<>> ELSE <<name>>

\* A string literal token.
StrLit(text) == << <<"\"">> \o text \o <<"\"">> >>

\* The lowering call panicked: todo!(), unreachable!(), unwrap() on None.
Abort == <<"<panic>">>
Aborted(ts) == \E i \in DOMAIN ts : ts[i] = Abort

\* #(#xs)* ; #(#xs),* and #(#xs)+* ; #(#xs,)*
RECURSIVE Concat(_)
Concat(streams) ==
    IF streams = <<>> THEN <<>> ELSE streams[1] \o Concat(Tail(streams))

RECURSIVE Separated(_, _)
Separated(streams, sep) ==
    IF streams = <<>> THEN <<>>
    ELSE IF Len(streams) = 1 THEN streams[1]
    ELSE streams[1] \o <<sep>> \o Separated(Tail(streams), sep)

Terminated(streams, sep) == Concat([i \in DOMAIN streams |-> streams[i] \o <<sep>>])

DigitChars == <<"0","1","2","3","4","5","6","7","8","9">>

\* format!("{size}") of an unsigned integer.
RECURSIVE Decimal(_)
Decimal(n) ==
    IF n < 10 THEN <<DigitChars[n + 1]>>
    ELSE Decimal(n \div 10) \o <<DigitChars[(n % 10) + 1]>>

(***************************************************************************)
(* The IR.  A value of an enum is a record whose tag names the variant and *)
(* whose other fields are the variant's fields, named as the match arms of *)
(* the lowering name them.  Option::None is the record None.               *)
(***************************************************************************)
None == [tag |-> "None"]

AccountIdT == [tag |-> "AccountId"]
BoolT == [tag |-> "Bool"]
StringT == [tag |-> "String"]
UintT(size) == [tag |-> "Uint", size |-> size]
IntT(size) == [tag |-> "Int", size |-> size]
MappingT(keys, value) == [tag |-> "Mapping", keys |-> keys, value |-> value]

Variable(name, is_storage) == [tag |-> "Variable", name |-> name, is_storage |-> is_storage]
NumberLiteral(value) == [tag |-> "NumberLiteral", value |-> value]
StringLiteral(strings) == [tag |-> "StringLiteral", strings |-> strings]
FunctionCall(function, args) == [tag |-> "FunctionCall", function |-> function, args |-> args]
Assign(variable, value) == [tag |-> "Assign", variable |-> variable, value |-> value]
AssignAdd(variable, value) == [tag |-> "AssignAdd", variable |-> variable, value |-> value]
Binary(tag, left, right) == [tag |-> tag, left |-> left, right |-> right]
MappingSubscript(array, indices) ==
    [tag |-> "MappingSubscript", array |-> array, indices |-> indices]
ArraySubscript(expression, index) ==
    [tag |-> "ArraySubscript", expression |-> expression, index |-> index]
MemberAccess(left, member) == [tag |-> "MemberAccess", left |-> left, member |-> member]
New(new) == [tag |-> "New", new |-> new]
Unary(tag, expression) == [tag |-> tag, expression |-> expression]
TypeExpr(ty) == [tag |-> "Type", ty |-> ty]
VariableDeclaration(ty, name) == [tag |-> "VariableDeclaration", ty |-> ty, name |-> name]

BinaryTags == {"Equal", "Less", "MoreEqual", "NotEqual", "Or", "Subtract"}
UnaryTags == {"PostDecrement", "PostIncrement", "PreDecrement", "PreIncrement"}

(***************************************************************************)
(* impl ToTokens for Type                                                  *)
(***************************************************************************)
RECURSIVE LowerType(_)
LowerType(ty) ==
    CASE ty.tag = "AccountId"    -> Q(<<"AccountId">>)
      [] ty.tag = "Bool"         -> Q(<<"bool">>)
      [] ty.tag = "String"       -> Q(<<"String">>)
      [] ty.tag = "Int"          -> Ident(<<"i">> \o Decimal(ty.size))
      [] ty.tag = "Uint"         -> Ident(<<"u">> \o Decimal(ty.size))
      [] ty.tag = "Bytes"        -> Q(<<"[", "u8", ";">>) \o Ident(Decimal(ty.size)) \o Q(<<"]">>)
      [] ty.tag = "DynamicBytes" -> Q(<<"Vec", "<", "u8", ">">>)
      [] ty.tag = "Variable"     -> Ident(format_expression(ty.name))
      [] ty.tag = "Mapping"      ->
            IF Len(ty.keys) = 1
            THEN Q(<<"Mapping", "<">>) \o LowerType(ty.keys[1]) \o Q(<<",">>)
                 \o LowerType(ty.value) \o Q(<<">">>)
            ELSE Q(<<"Mapping", "<", "(">>)
                 \o Terminated([i \in DOMAIN ty.keys |-> LowerType(ty.keys[i])], <<",">>)
                 \o Q(<<")", ",">>) \o LowerType(ty.value) \o Q(<<">">>)
      [] ty.tag = "Array"        -> Q(<<"Vec", "<">>) \o LowerType(ty.ty) \o Q(<<">">>)
      [] ty.tag = "None"         -> <<>>

(***************************************************************************)
(* impl ToTokens for Expression.  Every arm is an operator over the        *)
(* lowered sub-expressions.                                                *)
(***************************************************************************)
\* An assignment to a map slot lowered like any other assignment.
AssignMappingAsStore(mapping, indices, value) ==
    mapping \o Q(<<"[">>) \o Separated(indices, <<"+">>) \o Q(<<"]", "=">>) \o value

\* Expression::Assign on a MappingSubscript: (the lowered map, the lowered
\* indices, the lowered value).
AssignMappingTokens(mapping, indices, value) ==
    mapping \o Q(<<".", "insert", "(", "&", "(">>) \o Separated(indices, <<",">>)
    \o Q(<<")", ",", "&">>) \o value \o Q(<<")">>)

\* Expression::Assign on any other target.
AssignPlainTokens(variable, value) == variable \o Q(<<"=">>) \o value

AssignAddTokens(variable, value) == variable \o Q(<<"+=">>) \o value

DefaultRequireMessage == <<"N","o"," ","e","r","r","o","r"," ","m","e","s","s","a","g","e"," ","p","r","o","v","d","i","d","e","d"," ",":",")">>

\* A require whose condition is negated without the parentheses.
RequireTokensBare(args) ==
    IF Len(args) = 0 THEN <<Abort>>
    ELSE Q(<<"if", "!">>) \o args[1] \o Q(<<"{", "return", "Err", "(",
            "Error", "::", "Custom", "(", "String", "::", "from", "(">>)
         \o (IF Len(args) > 1 THEN args[2] ELSE StrLit(DefaultRequireMessage))
         \o Q(<<")", ")", ")", "}">>)

\* Expression::FunctionCall of `require`: (the lowered arguments).
RequireTokens(args) ==
    IF Len(args) = 0 THEN <<Abort>>     \* &args[0] is out of bounds
    ELSE Q(<<"if", "!", "(">>) \o args[1] \o Q(<<")", "{", "return", "Err", "(",
            "Error", "::", "Custom", "(", "String", "::", "from", "(">>)
         \o (IF Len(args) > 1 THEN args[2] ELSE StrLit(DefaultRequireMessage))
         \o Q(<<")", ")", ")", "}">>)

\* Expression::FunctionCall of anything else.
CallTokens(function, args) ==
    function \o Q(<<"(">>) \o Terminated(args, <<",">>) \o Q(<<")">>)

BinaryOperator(tag) ==
    CASE tag = "Equal"     -> "=="
      [] tag = "Less"      -> "<"
      [] tag = "MoreEqual" -> ">="
      [] tag = "NotEqual"  -> "!="
      [] tag = "Or"        -> "||"
      [] tag = "Subtract"  -> "-="

BinaryTokens(tag, left, right) == left \o Q(<<BinaryOperator(tag)>>) \o right

\* The four increment / decrement arms.
UnaryOperator(tag) == IF tag \in {"PostDecrement", "PreDecrement"} THEN "-=" ELSE "+="

UnaryTokens(tag, expression) == expression \o Q(<<UnaryOperator(tag), "1">>)

\* Expression::MappingSubscript outside an assignment target.
MappingSubscriptTokens(array, indices) ==
    array \o Q(<<"[">>) \o Separated(indices, <<"+">>) \o Q(<<"]">>)

\* Expression::Variable
VariableTokens(name, is_storage) ==
    IF is_storage
    THEN Q(<<"self", ".", "data", "(", ")", ".">>) \o Ident(ToSnake(name))
    ELSE Ident(ToSnake(name))

\* Expression::New of a call on an array subscript: vec!( ty::default(); values )
NewArrayTokens(ty, values) ==
    Q(<<"vec", "!", "(">>) \o ty \o Q(<<"::", "default", "(", ")", ";">>)
    \o Concat(values) \o Q(<<")">>)

RECURSIVE LowerExpr(_)
LowerExpr(e) ==
    CASE e.tag = "None" -> <<>>
      [] e.tag = "ArraySubscript" ->
            LowerExpr(e.expression) \o Q(<<"[">>) \o LowerExpr(e.index) \o Q(<<"]">>)
      [] e.tag = "Assign" ->
            IF e.variable.tag = "MappingSubscript"
            THEN AssignMappingTokens(
                    LowerExpr(e.variable.array),
                    [i \in DOMAIN e.variable.indices |-> LowerExpr(e.variable.indices[i])],
                    LowerExpr(e.value))
            ELSE AssignPlainTokens(LowerExpr(e.variable), LowerExpr(e.value))
      [] e.tag = "AssignAdd" -> AssignAddTokens(LowerExpr(e.variable), LowerExpr(e.value))
      [] e.tag = "FunctionCall" ->
            IF e.function.tag = "Variable" /\ e.function.name = <<"r","e","q","u","i","r","e">>
            THEN RequireTokens([i \in DOMAIN e.args |-> LowerExpr(e.args[i])])
            ELSE CallTokens(LowerExpr(e.function), [i \in DOMAIN e.args |-> LowerExpr(e.args[i])])
      [] e.tag \in BinaryTags -> BinaryTokens(e.tag, LowerExpr(e.left), LowerExpr(e.right))
      [] e.tag = "MappingSubscript" ->
            MappingSubscriptTokens(
                LowerExpr(e.array), [i \in DOMAIN e.indices |-> LowerExpr(e.indices[i])])
      [] e.tag = "MemberAccess" -> LowerExpr(e.left) \o Q(<<".">>) \o Ident(e.member)
      [] e.tag = "New" ->
            IF e.new.tag = "FunctionCall" /\ e.new.function.tag = "ArraySubscript"
            THEN NewArrayTokens(
                    LowerExpr(e.new.function.expression),
                    [i \in DOMAIN e.new.args |-> LowerExpr(e.new.args[i])])
            ELSE <<Abort>>      \* todo!()
      [] e.tag = "NumberLiteral" -> Ident(e.value)
      [] e.tag \in UnaryTags -> UnaryTokens(e.tag, LowerExpr(e.expression))
      [] e.tag = "StringLiteral" -> StrLit(Join(e.strings, <<" ">>))
      [] e.tag = "Type" -> LowerType(e.ty)
      [] e.tag = "Variable" -> VariableTokens(e.name, e.is_storage)
      [] e.tag = "VariableDeclaration" ->
            Q(<<"let", "mut">>) \o Ident(e.name) \o Q(<<":">>) \o LowerType(e.ty)

(***************************************************************************)
(* impl ToTokens for Statement                                             *)
(***************************************************************************)
Assembly == [tag |-> "Assembly"]
Block(body) == [tag |-> "Block", body |-> body]
Break == [tag |-> "Break"]
Continue == [tag |-> "Continue"]
DoWhile(body, condition) == [tag |-> "DoWhile", body |-> body, condition |-> condition]
Emit(expression) == [tag |-> "Emit", expression |-> expression]
ErrorStmt == [tag |-> "Error"]
ExpressionStmt(expression) == [tag |-> "Expression", expression |-> expression]
For(body, declaration, condition, on_pass) ==
    [tag |-> "For", body |-> body, declaration |-> declaration,
     condition |-> condition, on_pass |-> on_pass]
If(condition, if_true, if_false) ==
    [tag |-> "If", condition |-> condition, if_true |-> if_true, if_false |-> if_false]
Return(expression) == [tag |-> "Return", expression |-> expression]
Revert == [tag |-> "Revert"]
RevertNamedArgs == [tag |-> "RevertNamedArgs"]
Try(expression) == [tag |-> "Try", expression |-> expression]
UncheckedBlock(statements) == [tag |-> "UncheckedBlock", statements |-> statements]
VariableDefinition(definition, initial_value) ==
    [tag |-> "VariableDefinition", definition |-> definition, initial_value |-> initial_value]
While(condition, body) == [tag |-> "While", condition |-> condition, body |-> body]

\* Statement::DoWhile: (the lowered body, the lowered condition).
DoWhileTokens(body, condition) ==
    Q(<<"loop", "{">>) \o body \o Q(<<"if", "!">>) \o condition
    \o Q(<<"{", "break", "}", "}">>)

\* Statement::For: (the lowered body, declaration, condition and on_pass).
ForTokens(body, declaration, condition, on_pass) ==
    declaration \o Q(<<";", "loop", "{", "if", "!">>) \o condition
    \o Q(<<"{", "break", "}">>) \o body \o on_pass \o Q(<<"}">>)

\* Statement::Expression
ExpressionStmtTokens(expression) == expression \o Q(<<";">>)

\* Statement::Emit with the arguments passed last to first.
EmitTokensReversed(expression) ==
    IF expression.tag = "FunctionCall" /\ expression.function.tag = "Variable"
    THEN Q(<<"self", ".">>) \o Ident(<<"_","e","m","i","t","_">> \o ToSnake(expression.function.name))
         \o Q(<<"(">>)
         \o Separated([i \in DOMAIN expression.args |->
                          LowerExpr(expression.args[Len(expression.args) + 1 - i])], <<",">>)
         \o Q(<<")", ";">>)
    ELSE <<Abort>>

\* Statement::Emit: the helper call for an event call, a panic otherwise.
EmitTokens(expression) ==
    IF expression.tag = "FunctionCall" /\ expression.function.tag = "Variable"
    THEN Q(<<"self", ".">>) \o Ident(<<"_","e","m","i","t","_">> \o ToSnake(expression.function.name))
         \o Q(<<"(">>)
         \o Separated([i \in DOMAIN expression.args |-> LowerExpr(expression.args[i])], <<",">>)
         \o Q(<<")", ";">>)
    ELSE <<Abort>>      \* unreachable!("Emit can be only function call")

IfTokens(condition, if_true, has_else, if_false) ==
    Q(<<"if">>) \o condition \o Q(<<"{">>) \o if_true \o Q(<<"}">>)
    \o (IF has_else THEN Q(<<"else", "{">>) \o if_false \o Q(<<"}">>) ELSE <<>>)

ReturnTokens(expression) == Q(<<"return", "Ok", "(">>) \o expression \o Q(<<")">>)

TryTokens(expression) ==
    Q(<<"if">>) \o expression \o Q(<<".", "is_err", "(", ")", "{", "return", "Err", "(",
        "Error", "::", "Custom", "(">>) \o StrLit(<<"T","r","y"," ","f","a","i","l","e","d">>)
    \o Q(<<")", ")", "}">>)

\* Statement::VariableDefinition: with an initial value the definition is
\* assigned it; without one only #initial_value (nothing) and the `;` remain.
VariableDefinitionTokens(definition, has_initial, initial_value) ==
    IF has_initial
    THEN definition \o Q(<<"=">>) \o initial_value \o Q(<<";">>)
    ELSE initial_value \o Q(<<";">>)

WhileTokens(condition, body) ==
    Q(<<"while">>) \o condition \o Q(<<"{">>) \o body \o Q(<<"}">>)

\* Statement::Assembly, Statement::Error, Statement::Revert and
\* Statement::RevertNamedArgs are todo!(): the call panics.
UnsupportedTokens(tag) == <<Abort>>

UnsupportedTags == {"Assembly", "Error", "Revert", "RevertNamedArgs"}

RECURSIVE LowerStmt(_)
LowerStmt(st) ==
    CASE st.tag = "None" -> <<>>
      [] st.tag \in UnsupportedTags -> UnsupportedTokens(st.tag)
      [] st.tag = "Block" -> Concat([i \in DOMAIN st.body |-> LowerStmt(st.body[i])])
      [] st.tag = "Break" -> Q(<<"break">>)
      [] st.tag = "Continue" -> Q(<<"continue">>)
      [] st.tag = "DoWhile" -> DoWhileTokens(LowerStmt(st.body), LowerExpr(st.condition))
      [] st.tag = "Emit" -> EmitTokens(st.expression)
      [] st.tag = "Expression" -> ExpressionStmtTokens(LowerExpr(st.expression))
      [] st.tag = "For" ->
            ForTokens(LowerStmt(st.body), LowerStmt(st.declaration),
                      LowerExpr(st.condition), LowerStmt(st.on_pass))
      [] st.tag = "If" ->
            IfTokens(LowerExpr(st.condition), LowerStmt(st.if_true),
                     st.if_false # None, LowerStmt(st.if_false))
      [] st.tag = "Return" -> ReturnTokens(LowerExpr(st.expression))
      [] st.tag = "Try" -> TryTokens(LowerExpr(st.expression))
      [] st.tag = "UncheckedBlock" ->
            Concat([i \in DOMAIN st.statements |-> LowerStmt(st.statements[i])])
      [] st.tag = "VariableDefinition" ->
            VariableDefinitionTokens(LowerExpr(st.definition), st.initial_value # None,
                                     LowerExpr(st.initial_value))
      [] st.tag = "While" -> WhileTokens(LowerExpr(st.condition), LowerStmt(st.body))

(***************************************************************************)
(* Declaration assemblers.                                                 *)
(***************************************************************************)
ContractField(field_type, name, comments, initial_value, constant, public) ==
    [field_type |-> field_type, name |-> name, comments |-> comments,
     initial_value |-> initial_value, constant |-> constant, public |-> public]

\* format_ident!("{}", name): Ident::new panics on an empty name and on a
\* name that does not start like an identifier.
FormatIdent(name) ==
    IF name = <<>> \/ IsDigit(name[1]) THEN <<Abort>> ELSE <<name>>

Blank == Q(<<"_blank_", "!", "(", ")", ";">>)

\* #[doc = #comment] for every comment
DocTokens(comments) ==
    Concat([i \in DOMAIN comments |-> Q(<<"#", "[", "doc", "=">>) \o StrLit(comments[i]) \o Q(<<"]">>)])

\* The filter of assemble_getters.
GetterFilter(field) == ~field.constant /\ field.public

\* The filter of assemble_getters_trait.
GetterTraitFilter(field) == ~field.constant

\* One accessor of the implementation.
GetterTokens(field) ==
    Q(<<"fn">>) \o FormatIdent(ToSnake(field.name)) \o Q(<<"(", "&", "self", ")", "->">>)
    \o LowerType(field.field_type)
    \o Q(<<"{", "self", ".", "data", "(", ")", ".">>) \o FormatIdent(ToSnake(field.name))
    \o Q(<<"}">>) \o Blank

\* One accessor declaration of the trait.
GetterTraitTokens(field) ==
    Q(<<"#", "[", "ink", "(", "message", ")", "]", "fn">>) \o FormatIdent(ToSnake(field.name))
    \o Q(<<"(", "&", "self", ")", "->">>) \o LowerType(field.field_type) \o Q(<<";">>) \o Blank

assemble_getters(fields) ==
    LET kept == SelectSeq(fields, GetterFilter)
    IN  Concat([i \in DOMAIN kept |-> GetterTokens(kept[i])])

assemble_getters_trait(fields) ==
    LET kept == SelectSeq(fields, GetterTraitFilter)
    IN  Concat([i \in DOMAIN kept |-> GetterTraitTokens(kept[i])])

\* The key of the storage record: the expression the STORAGE_KEY constant
\* is bound to.
StorageKeyExpr == Q(<<"openbrush", "::", "storage_unique_key", "!", "(", "Data", ")">>)

DataFieldTokens(field) ==
    DocTokens(field.comments) \o Q(<<"pub">>) \o FormatIdent(ToSnake(field.name)) \o Q(<<":">>)
    \o LowerType(field.field_type) \o Q(<<",">>)

\* A filter of assemble_data_struct that keeps the constants too.
DataStructFilterAll(field) == TRUE

\* The filter of assemble_data_struct.
DataStructFilter(field) == ~field.constant

assemble_data_struct(fields) ==
    LET kept == SelectSeq(fields, DataStructFilter)
    IN  Q(<<"pub", "const", "STORAGE_KEY", ":", "u32", "=">>) \o StorageKeyExpr \o Q(<<";">>)
        \o Blank
        \o Q(<<"#", "[", "derive", "(", "Default", ",", "Debug", ")", "]",
               "#", "[", "openbrush", "::", "upgradeable_storage", "(", "STORAGE_KEY", ")", "]",
               "pub", "struct", "Data", "{">>)
        \o Concat([i \in DOMAIN kept |-> DataFieldTokens(kept[i])])
        \o Q(<<"pub", "_reserved", ":", "Option", "<", "(", ")", ">", ",", "}">>)

\* to_case(UpperSnake)
ToUpperSnake(s) == Join([i \in DOMAIN Split(s) |-> ToUpper(Split(s)[i])], <<"_">>)

\* A filter that keeps every field.
ConstantFilterAll(field) == TRUE

\* The filter of assemble_constants.
ConstantFilter(field) == field.constant

\* One constant declaration; unwrap() panics on a field with no initial value.
ConstantTokens(field) ==
    IF field.initial_value = None THEN <<Abort>>
    ELSE DocTokens(field.comments)
         \o Q(<<"pub", "const">>) \o FormatIdent(ToUpperSnake(format_expression(field.name)))
         \o Q(<<":">>) \o LowerType(field.field_type) \o Q(<<"=">>)
         \o LowerExpr(field.initial_value) \o Q(<<";">>)

assemble_constants(fields) ==
    LET kept == SelectSeq(fields, ConstantFilter)
    IN  Concat([i \in DOMAIN kept |-> ConstantTokens(kept[i])]) \o Blank

FunctionParam(name, param_type) == [name |-> name, param_type |-> param_type]

FunctionHeader(name, params, external, view, payable, return_params, comments, modifiers) ==
    [name |-> name, params |-> params, external |-> external, view |-> view,
     payable |-> payable, return_params |-> return_params, comments |-> comments,
     modifiers |-> modifiers]

Function(header, body) == [header |-> header, body |-> body]

\* "&self" or "&mut self"
ViewTokens(view) == IF view THEN Q(<<"&", "self">>) ELSE Q(<<"&", "mut", "self">>)

\* , #param_name: #param_type for every parameter
ParamsTokens(params) ==
    Concat([i \in DOMAIN params |->
        Q(<<",">>) \o FormatIdent(format_expression(params[i].name)) \o Q(<<":">>)
        \o LowerType(params[i].param_type)])

\* The return type inside Result<_, Error>.
ReturnParamsTokens(return_params) ==
    LET types == Separated([i \in DOMAIN return_params |-> LowerType(return_params[i].param_type)],
                           <<",">>)
    IN  IF return_params = <<>> THEN Q(<<"(", ")">>)
        ELSE IF Len(return_params) > 1 THEN Q(<<"(">>) \o types \o Q(<<")">>)
        ELSE types

\* The name part of an implementation: "{default |pub |}fn {_|}{name}".
FunctionNameTokens(header, is_library) ==
    (IF ~header.external THEN Q(<<"default">>)
     ELSE IF is_library THEN Q(<<"pub">>)
     ELSE <<>>)
    \o Q(<<"fn">>)
    \o (IF header.external
        THEN Ident(format_expression(header.name))
        ELSE Ident(<<"_">> \o ToSnake(header.name)))

\* The name part of a header: "fn {_|}{name}".
HeaderNameTokens(header) ==
    Q(<<"fn">>)
    \o (IF header.external
        THEN Ident(format_expression(header.name))
        ELSE Ident(<<"_">> \o format_expression(header.name)))

\* let mut #param_name = Default::default(); for every named return parameter
ReturnDeclarations(return_params) ==
    Concat([i \in DOMAIN return_params |->
        IF return_params[i].name # <<"_">>
        THEN Q(<<"let", "mut">>) \o Ident(format_expression(return_params[i].name))
             \o Q(<<"=", "Default", "::", "default", "(", ")", ";">>)
        ELSE <<>>])

\* What follows the lowered statement of a body: Ok(()) when the function
\* returns nothing, and nothing otherwise.
FallThroughTokens(return_params) ==
    IF return_params = <<>> THEN Q(<<"Ok", "(", "(", ")", ")">>) ELSE <<>>

\* The body of an emitted function.
FunctionBody(function) ==
    ReturnDeclarations(function.header.return_params)
    \o LowerStmt(function.body)
    \o FallThroughTokens(function.header.return_params)

FunctionTokens(function, is_library) ==
    DocTokens(function.header.comments)
    \o Concat([i \in DOMAIN function.header.modifiers |->
            Q(<<"#", "[", "modifiers", "(">>) \o LowerExpr(function.header.modifiers[i])
            \o Q(<<")", "]">>)])
    \o FunctionNameTokens(function.header, is_library)
    \o Q(<<"(">>) \o ViewTokens(function.header.view) \o ParamsTokens(function.header.params)
    \o Q(<<")", "->", "Result", "<">>) \o ReturnParamsTokens(function.header.return_params)
    \o Q(<<",", "Error", ">", "{">>) \o FunctionBody(function) \o Q(<<"}">>)
    \o Blank

assemble_functions(functions, is_library) ==
    Concat([i \in DOMAIN functions |-> FunctionTokens(functions[i], is_library)])

HeaderTokens(header) ==
    DocTokens(header.comments)
    \o (IF ~header.external THEN <<>>
        ELSE IF header.payable
             THEN Q(<<"#", "[", "ink", "(", "message", ",", "payable", ")", "]">>)
             ELSE Q(<<"#", "[", "ink", "(", "message", ")", "]">>))
    \o HeaderNameTokens(header)
    \o Q(<<"(">>) \o ViewTokens(header.view) \o ParamsTokens(header.params)
    \o Q(<<")", "->", "Result", "<">>) \o ReturnParamsTokens(header.return_params)
    \o Q(<<",", "Error", ">", ";">>)
    \o Blank

assemble_function_headers(function_headers) ==
    Concat([i \in DOMAIN function_headers |-> HeaderTokens(function_headers[i])])

Event(name, fields, comments) == [name |-> name, fields |-> fields, comments |-> comments]

EventField(indexed, field_type, name, comments) ==
    [indexed |-> indexed, field_type |-> field_type, name |-> name, comments |-> comments]

\* An event field that always carries the topic marker.
EventFieldAllTopics(field) ==
    DocTokens(field.comments) \o Q(<<"#", "[", "ink", "(", "topic", ")", "]">>)
    \o FormatIdent(format_expression(field.name)) \o Q(<<":">>)
    \o LowerType(field.field_type) \o Q(<<",">>)

\* One field of an event type.
EventFieldTokens(field) ==
    DocTokens(field.comments)
    \o (IF field.indexed THEN Q(<<"#", "[", "ink", "(", "topic", ")", "]">>) ELSE <<>>)
    \o FormatIdent(format_expression(field.name)) \o Q(<<":">>)
    \o LowerType(field.field_type) \o Q(<<",">>)

\* One event type.
EventTokens(event) ==
    DocTokens(event.comments)
    \o Q(<<"#", "[", "ink", "(", "event", ")", "]", "pub", "struct">>) \o Ident(event.name)
    \o Q(<<"{">>) \o Concat([i \in DOMAIN event.fields |-> EventFieldTokens(event.fields[i])])
    \o Q(<<"}">>) \o Blank

assemble_events(events) == Concat([i \in DOMAIN events |-> EventTokens(events[i])])

\* A filter that keeps the constant fields with an initial value as well.
ConstructorFilterInitialised(field) == field.initial_value # None

\* The filter of assemble_constructor: the fields it initialises.
ConstructorFilter(field) == field.initial_value # None /\ ~field.constant

\* self.#field_name = #intial_value;
ConstructorFieldTokens(field) ==
    Q(<<"self", ".">>) \o FormatIdent(ToSnake(field.name)) \o Q(<<"=">>)
    \o LowerExpr(field.initial_value) \o Q(<<";">>)

assemble_constructor(constructor, fields) ==
    LET initialised == SelectSeq(fields, ConstructorFilter)
    IN  DocTokens(constructor.header.comments)
        \o Q(<<"#", "[", "ink", "(", "constructor", ")", "]", "pub", "fn", "new", "(">>)
        \o Concat([i \in DOMAIN constructor.header.params |->
                FormatIdent(ToSnake(constructor.header.params[i].name)) \o Q(<<":">>)
                \o LowerType(constructor.header.params[i].param_type) \o Q(<<",">>)])
        \o Q(<<")", "->", "Self", "{", "ink_lang", "::", "codegen", "::",
               "initialize_contract", "(", "|", "instance", ":", "&", "mut", "Self", "|", "{">>)
        \o LowerStmt(constructor.body)
        \o Concat([i \in DOMAIN initialised |-> ConstructorFieldTokens(initialised[i])])
        \o Q(<<"}", ")", "}">>) \o Blank

Modifier(header, statements, comments) ==
    [header |-> header, statements |-> statements, comments |-> comments]

\* An emit helper named by the event's name as it is written.
EmitFunctionNameAsWritten(event_name) == Ident(<<"_","e","m","i","t","_">> \o event_name)

\* "_emit_{snake_case(event name)}"
EmitFunctionName(event_name) == Ident(<<"_","e","m","i","t","_">> \o ToSnake(event_name))

\* The Internal trait's declaration of an emit helper.
EmitHeaderTokens(event) ==
    Q(<<"fn">>) \o EmitFunctionName(event.name) \o Q(<<"(", "&", "self", ",">>)
    \o Concat([i \in DOMAIN event.fields |->
            FormatIdent(format_expression(event.fields[i].name)) \o Q(<<":">>)
            \o LowerType(event.fields[i].field_type) \o Q(<<",">>)])
    \o Q(<<")", ";">>) \o Blank

\* The default no-op implementation of an emit helper.
EmitDefaultTokens(event) ==
    Q(<<"default", "fn">>) \o EmitFunctionName(event.name) \o Q(<<"(", "&", "self", ",">>)
    \o Concat([i \in DOMAIN event.fields |->
            Q(<<"_", ":">>) \o LowerType(event.fields[i].field_type) \o Q(<<",">>)])
    \o Q(<<")", "{", "}">>) \o Blank

\* assemble_emit_functions returns the pair (declarations, default implementations).
assemble_emit_functions(events) ==
    << Concat([i \in DOMAIN events |-> EmitHeaderTokens(events[i])]),
       Concat([i \in DOMAIN events |-> EmitDefaultTokens(events[i])]) >>

\* A wrapper that calls the continuation before the statements of the
\* modifier and drops what it returns.
ModifierTokensCallingFirst(modifier, contract_name) ==
    DocTokens(modifier.comments)
    \o Q(<<"#", "[", "modifier_definition", "]", "pub", "fn">>)
    \o FormatIdent(format_expression(modifier.header.name))
    \o Q(<<"<", "T", ",", "F", ",", "R", ">", "(", "instance", ":", "&", "mut", "T", ",",
           "body", ":", "F">>)
    \o Concat([i \in DOMAIN modifier.header.params |->
            Q(<<",">>) \o FormatIdent(ToSnake(modifier.header.params[i].name)) \o Q(<<":">>)
            \o LowerType(modifier.header.params[i].param_type)])
    \o Q(<<")", "->", "Result", "<", "R", ",", "Error", ">", "where", "T", ":">>)
    \o contract_name
    \o Q(<<",", "F", ":", "FnOnce", "(", "&", "mut", "T", ")", "->", "Result", "<", "R", ",",
           "Error", ">", "{">>)
    \o Q(<<"body", "(", "instance", ")", ";">>)
    \o Concat([i \in DOMAIN modifier.statements |-> LowerStmt(modifier.statements[i])])
    \o Q(<<"}">>) \o Blank

ModifierTokens(modifier, contract_name) ==
    DocTokens(modifier.comments)
    \o Q(<<"#", "[", "modifier_definition", "]", "pub", "fn">>)
    \o FormatIdent(format_expression(modifier.header.name))
    \o Q(<<"<", "T", ",", "F", ",", "R", ">", "(", "instance", ":", "&", "mut", "T", ",",
           "body", ":", "F">>)
    \o Concat([i \in DOMAIN modifier.header.params |->
            Q(<<",">>) \o FormatIdent(ToSnake(modifier.header.params[i].name)) \o Q(<<":">>)
            \o LowerType(modifier.header.params[i].param_type)])
    \o Q(<<")", "->", "Result", "<", "R", ",", "Error", ">", "where", "T", ":">>)
    \o contract_name
    \o Q(<<",", "F", ":", "FnOnce", "(", "&", "mut", "T", ")", "->", "Result", "<", "R", ",",
           "Error", ">", "{">>)
    \o Concat([i \in DOMAIN modifier.statements |-> LowerStmt(modifier.statements[i])])
    \o Q(<<"}">>) \o Blank

assemble_modifiers(modifiers, contract_name) ==
    Concat([i \in DOMAIN modifiers |-> ModifierTokens(modifiers[i], contract_name)])

\* env!("CARGO_PKG_VERSION"): fixed when the tool is built.
Version == <<"{","C","A","R","G","O","_","P","K","G","_","V","E","R","S","I","O","N","}">>

signature ==
    Q(<<"_comment_", "!", "(">>)
    \o StrLit(<<"G","e","n","e","r","a","t","e","d"," ","w","i","t","h"," ","S","o","l","2","I","n","k"," ","v">> \o Version \o <<"\n">>)
    \o Q(<<")", ";", "_comment_", "!", "(">>)
    \o StrLit(<<"h","t","t","p","s",":","/","/","g","i","t","h","u","b",".","c","o","m","/","S","u","p","e","r","c","o","l","o","n","y","-","n","e","t","/","s","o","l","2","i","n","k">> \o <<"\n">>)
    \o Q(<<")", ";">>) \o Blank

\* TokenStream::from_str on the text of an import: identifiers, `::` and
\* single-character punctuation, separated by spaces.
IsIdentChar(c) == IsUpper(c) \/ IsLower(c) \/ IsDigit(c) \/ c = "_"

RECURSIVE LexFrom(_, _, _, _)
LexFrom(s, i, word, toks) ==
    LET flushed == IF word = <<>> THEN toks ELSE Append(toks, word)
    IN  IF i > Len(s) THEN flushed
        ELSE IF IsIdentChar(s[i]) THEN LexFrom(s, i + 1, Append(word, s[i]), toks)
        ELSE IF s[i] = " " THEN LexFrom(s, i + 1, <<>>, flushed)
        ELSE IF s[i] = ":" /\ i < Len(s) /\ s[i + 1] = ":"
             THEN LexFrom(s, i + 2, <<>>, Append(flushed, <<"::">>))
        ELSE LexFrom(s, i + 1, <<>>, Append(flushed, <<s[i]>>))

Lex(s) == LexFrom(s, 1, <<>>, <<>>)

\* assemble_imports: the imports in the order the HashSet iterates them,
\* which is any order of its elements.
assemble_imports(order) == Concat([i \in DOMAIN order |-> Lex(order[i])])

Orders(set) ==
    {o \in [1..Cardinality(set) -> set] : \A i, j \in DOMAIN o : o[i] = o[j] => i = j}

Contract(name, fields, constructor, events, enums, structs, functions, imports, contract_doc, modifiers) ==
    [name |-> name, fields |-> fields, constructor |-> constructor, events |-> events,
     enums |-> enums, structs |-> structs, functions |-> functions, imports |-> imports,
     contract_doc |-> contract_doc, modifiers |-> modifiers]

\* to_case(Pascal): the words capitalised and joined.
Capitalise(word) == ToUpper(<<word[1]>>) \o ToLower(Tail(word))
ToPascal(s) == Join([i \in DOMAIN Split(s) |-> Capitalise(Split(s)[i])], <<>>)

Enum(name, values, comments) == [name |-> name, values |-> values, comments |-> comments]
EnumField(name, comments) == [name |-> name, comments |-> comments]
Struct(name, fields, comments) == [name |-> name, fields |-> fields, comments |-> comments]
StructField(name, field_type, comments) ==
    [name |-> name, field_type |-> field_type, comments |-> comments]

EnumTokens(enumeration) ==
    DocTokens(enumeration.comments)
    \o Q(<<"pub", "enum">>) \o Ident(ToPascal(format_expression(enumeration.name)))
    \o Q(<<"{">>)
    \o Concat([i \in DOMAIN enumeration.values |->
            DocTokens(enumeration.values[i].comments)
            \o Ident(ToPascal(enumeration.values[i].name)) \o Q(<<",">>)])
    \o Q(<<"}">>) \o Blank

assemble_enums(enums) == Concat([i \in DOMAIN enums |-> EnumTokens(enums[i])])

StructTokens(structure) ==
    DocTokens(structure.comments)
    \o Q(<<"#", "[", "derive", "(", "Default", ",", "Encode", ",", "Decode", ")", "]",
           "#", "[", "cfg_attr", "(", "feature", "=">>) \o StrLit(<<"s","t","d">>)
    \o Q(<<",", "derive", "(", "scale_info", "::", "TypeInfo", ")", ")", "]",
           "pub", "struct">>)
    \o Ident(format_expression(structure.name)) \o Q(<<"{">>)
    \o Concat([i \in DOMAIN structure.fields |->
            DocTokens(structure.fields[i].comments)
            \o FormatIdent(format_expression(structure.fields[i].name)) \o Q(<<":">>)
            \o LowerType(structure.fields[i].field_type) \o Q(<<",">>)])
    \o Q(<<"}">>) \o Blank

assemble_structs(structs) == Concat([i \in DOMAIN structs |-> StructTokens(structs[i])])

assemble_contract_doc(comments) == DocTokens(comments)

Library(name, fields, events, enums, structs, functions, imports, libraray_doc) ==
    [name |-> name, fields |-> fields, events |-> events, enums |-> enums,
     structs |-> structs, functions |-> functions, imports |-> imports,
     libraray_doc |-> libraray_doc]

\* assemble_library with the imports iterated in the given order.
assemble_library(library, order) ==
    Q(<<"#", "!", "[", "cfg_attr", "(", "not", "(", "feature", "=">>) \o StrLit(<<"s","t","d">>)
    \o Q(<<")", ",", "no_std", ")", "]",
           "#", "!", "[", "feature", "(", "min_specialization", ")", "]">>)
    \o Blank
    \o signature
    \o assemble_contract_doc(library.libraray_doc)
    \o assemble_imports(order)
    \o Blank
    \o Q(<<"pub", "enum", "Error", "{", "Custom", "(", "String", ")", ",", "}">>)
    \o Blank
    \o assemble_constants(library.fields)
    \o assemble_events(library.events)
    \o assemble_enums(library.enums)
    \o assemble_structs(library.structs)
    \o assemble_functions(library.functions, TRUE)

\* A filter that takes every function for external.
ExternalFilterAll(function) == TRUE

\* The filters of assemble_impl and assemble_trait on the functions.
ExternalFilter(function) == function.header.external
InternalFilter(function) == ~function.header.external

assemble_storage(contract_name) ==
    Q(<<"#", "[", "ink", "(", "storage", ")", "]",
        "#", "[", "derive", "(", "Default", ",", "SpreadAllocate", ",", "Storage", ")", "]",
        "pub", "struct">>)
    \o FormatIdent(contract_name \o <<"C","o","n","t","r","a","c","t">>)
    \o Q(<<"{", "#", "[", "storage_field", "]", "data", ":", "impls", "::", "Data", ",", "}">>)

\* The emit helper of the contract artifact: it emits the event.
EmitContractTokens(event) ==
    Q(<<"fn">>) \o EmitFunctionName(event.name) \o Q(<<"(", "&", "self", ",">>)
    \o Concat([i \in DOMAIN event.fields |->
            FormatIdent(format_expression(event.fields[i].name)) \o Q(<<":">>)
            \o LowerType(event.fields[i].field_type) \o Q(<<",">>)])
    \o Q(<<")", "{", "self", ".", "env", "(", ")", ".", "emit_event", "(">>)
    \o Ident(event.name) \o Q(<<"{">>)
    \o Concat([i \in DOMAIN event.fields |->
            FormatIdent(format_expression(event.fields[i].name)) \o Q(<<",">>)])
    \o Q(<<"}", ")", ";", "}">>) \o Blank

assemble_contract_emit_functions(events) ==
    Concat([i \in DOMAIN events |-> EmitContractTokens(events[i])])

\* assemble_contract with the imports iterated in the given order.
assemble_contract(contract, order) ==
    LET mod_name == FormatIdent(ToSnake(contract.name))
        contract_name == FormatIdent(contract.name \o <<"C","o","n","t","r","a","c","t">>)
        trait_name == FormatIdent(contract.name)
    IN  Q(<<"#", "!", "[", "cfg_attr", "(", "not", "(", "feature", "=">>) \o StrLit(<<"s","t","d">>)
        \o Q(<<")", ",", "no_std", ")", "]",
               "#", "!", "[", "feature", "(", "min_specialization", ")", "]">>)
        \o Blank
        \o signature
        \o assemble_contract_doc(contract.contract_doc)
        \o Q(<<"#", "[", "openbrush", "::", "contract", "]", "pub", "mod">>) \o mod_name
        \o Q(<<"{">>)
        \o assemble_imports(order)
        \o Q(<<"use", "scale", "::", "Encode", ";", "use", "scale", "::", "Decode", ";",
               "use", "ink_storage", "::", "traits", "::", "SpreadAllocate", ";",
               "use", "openbrush", "::", "traits", "::", "Storage", ";", "use">>)
        \o mod_name
        \o Q(<<"::", "*", ";", "use", "ink_lang", "::", "codegen", "::", "Env", ";",
               "use", "ink_lang", "::", "codegen", "::", "EmitEvent", ";">>)
        \o Blank
        \o assemble_constants(contract.fields)
        \o assemble_events(contract.events)
        \o assemble_storage(contract.name)
        \o Blank
        \o Q(<<"impl">>) \o trait_name \o Q(<<"for">>) \o contract_name \o Q(<<"{", "}">>)
        \o Blank
        \o Q(<<"impl">>) \o mod_name \o Q(<<"::", "Internal", "for">>) \o contract_name
        \o Q(<<"{">>) \o assemble_contract_emit_functions(contract.events) \o Q(<<"}">>)
        \o Blank
        \o Q(<<"impl">>) \o contract_name \o Q(<<"{">>)
        \o assemble_constructor(contract.constructor, contract.fields)
        \o Q(<<"}", "}">>)

\* assemble_trait with the imports iterated in the given order.
assemble_trait(contract, order) ==
    LET trait_name == Ident(contract.name)
        ref_name == Ident(contract.name \o <<"R","e","f">>)
        external == SelectSeq(contract.functions, ExternalFilter)
    IN  signature
        \o assemble_imports(order)
        \o Q(<<"use", "scale", "::", "{", "Decode", ",", "Encode", ",", "}", ";">>)
        \o Blank
        \o Q(<<"#", "[", "derive", "(", "Debug", ",", "Encode", ",", "Decode", ",",
               "PartialEq", ",", "Eq", ")", "]",
               "#", "[", "cfg_attr", "(", "feature", "=">>) \o StrLit(<<"s","t","d">>)
        \o Q(<<",", "derive", "(", "scale_info", "::", "TypeInfo", ")", ")", "]",
               "pub", "enum", "Error", "{", "Custom", "(", "String", ")", ",", "}">>)
        \o Blank
        \o assemble_enums(contract.enums)
        \o Blank
        \o assemble_structs(contract.structs)
        \o Blank
        \o Q(<<"#", "[", "openbrush", "::", "wrapper", "]", "pub", "type">>) \o ref_name
        \o Q(<<"=", "dyn">>) \o trait_name \o Q(<<";">>)
        \o Blank
        \o Q(<<"#", "[", "openbrush", "::", "trait_definition", "]", "pub", "trait">>)
        \o trait_name \o Q(<<"{">>)
        \o assemble_function_headers([i \in DOMAIN external |-> external[i].header])
        \o assemble_getters_trait(contract.fields)
        \o Q(<<"}">>)

\* assemble_impl with the imports iterated in the given order.
assemble_impl(contract, order) ==
    LET trait_name == FormatIdent(contract.name)
        external == SelectSeq(contract.functions, ExternalFilter)
        internal == SelectSeq(contract.functions, InternalFilter)
        emit == assemble_emit_functions(contract.events)
    IN  signature
        \o Q(<<"pub", "use", "crate", "::", "{", "impls", ",", "traits", "::", "*", ",", "}", ";">>)
        \o assemble_imports(order)
        \o Q(<<"use", "openbrush", "::", "traits", "::", "Storage", ";">>) \o Blank
        \o assemble_data_struct(contract.fields) \o Blank
        \o assemble_modifiers(contract.modifiers, trait_name) \o Blank
        \o Q(<<"impl", "<", "T", ":", "Storage", "<", "Data", ">", ">">>) \o trait_name
        \o Q(<<"for", "T", "{">>)
        \o assemble_functions(external, FALSE)
        \o assemble_getters(contract.fields)
        \o Q(<<"}">>) \o Blank
        \o Q(<<"pub", "trait", "Internal", "{">>)
        \o assemble_function_headers([i \in DOMAIN internal |-> internal[i].header])
        \o emit[1]
        \o Q(<<"}">>) \o Blank
        \o Q(<<"impl", "<", "T", ":", "Storage", "<", "Data", ">", ">", "Internal", "for", "T", "{">>)
        \o assemble_functions(internal, FALSE)
        \o emit[2]
        \o Q(<<"}">>)

(***************************************************************************)
(* Inputs: raw names.                                                      *)
(***************************************************************************)
NameAlphabet == {"f", "n", "F", "N", "_", "1"}

RECURSIVE StringsUpTo(_, _)
StringsUpTo(alphabet, n) ==
    IF n = 0 THEN {<<>>}
    ELSE LET shorter == StringsUpTo(alphabet, n - 1)
         IN  shorter \cup {Append(s, c) : s \in shorter, c \in alphabet}

RawNames == (StringsUpTo(NameAlphabet, MaxNameLen) \ {<<>>}) \cup RUST_KEYWORDS

NoCall == [op |-> "none", arg |-> [name |-> <<>>], out |-> <<>>, status |-> "idle"]
Last == [op |-> op, arg |-> arg, out |-> out, status |-> status]
NoRun == [active |-> FALSE]

(***************************************************************************)
(* Operations on names.                                                    *)
(***************************************************************************)
\* format_expression(&name) on a raw name.
FormatExpression ==
    \E name \in RawNames :
        /\ status = "idle"
        /\ op' = "format_expression"
        /\ arg' = [name |-> name]
        /\ out' = format_expression(name)
        /\ status' = "done"
        /\ prev' = NoCall
        /\ UNCHANGED run

\* format_expression applied to the identifier the last call returned.
FormatExpressionAgain ==
    /\ op = "format_expression"
    /\ prev = NoCall
    /\ op' = "format_expression"
    /\ arg' = [name |-> out]
    /\ out' = format_expression(out)
    /\ status' = "done"
    /\ prev' = Last
    /\ UNCHANGED run

InitIdle ==
    /\ op = "none"
    /\ arg = [name |-> <<>>]
    /\ out = <<>>
    /\ status = "idle"
    /\ prev = NoCall
    /\ run = NoRun

NextNames == FormatExpression \/ FormatExpressionAgain
SpecNames == InitIdle /\ [][NextNames]_vars

(***************************************************************************)
(* Inputs: contract field lists.                                           *)
(***************************************************************************)
FieldNames == {<<"o","w","n","e","r">>, <<"t","o","t","a","l","S","u","p","p","l","y">>, <<"M","A","X">>}

FieldTypeOf(name) ==
    IF name = <<"o","w","n","e","r">> THEN AccountIdT
    ELSE IF name = <<"t","o","t","a","l","S","u","p","p","l","y">> THEN UintT(128)
    ELSE UintT(8)

FieldPool ==
    {ContractField(FieldTypeOf(n), n, <<>>, iv, c, p) :
        n \in FieldNames, iv \in {None, NumberLiteral(<<"1">>)}, c \in BOOLEAN, p \in BOOLEAN}

\* The lists of at most n fields with pairwise distinct names.
RECURSIVE FieldListsUpTo(_)
FieldListsUpTo(n) ==
    IF n = 0 THEN {<<>>}
    ELSE LET shorter == FieldListsUpTo(n - 1)
         IN  shorter \cup
             {Append(l, f) : l \in {x \in shorter : Len(x) = n - 1},
                             f \in FieldPool} 

DistinctNames(fields) == \A i, j \in DOMAIN fields : fields[i].name = fields[j].name => i = j

FieldLists == {l \in FieldListsUpTo(MaxFields) : DistinctNames(l)}

\* The outcome of a call of an assembler or of a lowering: what it returned,
\* or an abort when the call panicked.
Outcome(name, input, tokens) ==
    [op |-> name, arg |-> input,
     out |-> IF Aborted(tokens) THEN <<>> ELSE tokens,
     status |-> IF Aborted(tokens) THEN "aborted" ELSE "done"]

AssembleGetters ==
    \E fields \in FieldLists :
        /\ status = "idle"
        /\ LET c == Outcome("assemble_getters", [fields |-> fields], assemble_getters(fields))
           IN  op' = c.op /\ arg' = c.arg /\ out' = c.out /\ status' = c.status
        /\ prev' = NoCall
        /\ UNCHANGED run

AssembleGettersTrait ==
    \E fields \in FieldLists :
        /\ status = "idle"
        /\ LET c == Outcome("assemble_getters_trait", [fields |-> fields], assemble_getters_trait(fields))
           IN  op' = c.op /\ arg' = c.arg /\ out' = c.out /\ status' = c.status
        /\ prev' = NoCall
        /\ UNCHANGED run

AssembleDataStruct ==
    \E fields \in FieldLists :
        /\ status = "idle"
        /\ LET c == Outcome("assemble_data_struct", [fields |-> fields], assemble_data_struct(fields))
           IN  op' = c.op /\ arg' = c.arg /\ out' = c.out /\ status' = c.status
        /\ prev' = NoCall
        /\ UNCHANGED run

AssembleConstants ==
    \E fields \in FieldLists :
        /\ status = "idle"
        /\ LET c == Outcome("assemble_constants", [fields |-> fields], assemble_constants(fields))
           IN  op' = c.op /\ arg' = c.arg /\ out' = c.out /\ status' = c.status
        /\ prev' = NoCall
        /\ UNCHANGED run

\* A constructor with no body, and one that stores a parameter.
EmptyConstructor ==
    Function(FunctionHeader(<<"c","o","n","s","t","r","u","c","t","o","r">>, <<>>, FALSE, FALSE, FALSE, <<>>, <<>>, <<>>),
             None)

StoringConstructor ==
    Function(FunctionHeader(<<"c","o","n","s","t","r","u","c","t","o","r">>, <<FunctionParam(<<"n","e","w","O","w","n","e","r">>, AccountIdT)>>,
                            FALSE, FALSE, FALSE, <<>>, <<>>, <<>>),
             ExpressionStmt(Assign(Variable(<<"o","w","n","e","r">>, TRUE),
                                   Variable(<<"n","e","w","O","w","n","e","r">>, FALSE))))

Constructors == {EmptyConstructor, StoringConstructor}

AssembleConstructor ==
    \E constructor \in Constructors : \E fields \in FieldLists :
        /\ status = "idle"
        /\ LET c == Outcome("assemble_constructor",
                            [constructor |-> constructor, fields |-> fields],
                            assemble_constructor(constructor, fields))
           IN  op' = c.op /\ arg' = c.arg /\ out' = c.out /\ status' = c.status
        /\ prev' = NoCall
        /\ UNCHANGED run

NextFields ==
    \/ AssembleGetters \/ AssembleGettersTrait \/ AssembleDataStruct \/ AssembleConstants
    \/ AssembleConstructor
SpecFields == InitIdle /\ [][NextFields]_vars

(***************************************************************************)
(* Inputs: expressions and statements.                                     *)
(***************************************************************************)
LocalNames == {<<"t","o">>, <<"a","m","o","u","n","t">>}
StorageNames == {<<"b","a","l","a","n","c","e","s">>, <<"a","l","l","o","w","e","d">>}

Atoms ==
    {Variable(n, FALSE) : n \in LocalNames} \cup {Variable(n, TRUE) : n \in StorageNames}
    \cup {NumberLiteral(<<"1">>)}

KeyAtoms == {Variable(n, FALSE) : n \in LocalNames} \cup {NumberLiteral(<<"1">>)}

RECURSIVE KeyListsUpTo(_)
KeyListsUpTo(n) ==
    IF n = 0 THEN {<<>>}
    ELSE LET shorter == KeyListsUpTo(n - 1)
         IN  shorter \cup {Append(l, k) : l \in {x \in shorter : Len(x) = n - 1}, k \in KeyAtoms}

KeyLists == KeyListsUpTo(MaxKeys) \ {<<>>}

MapSlots == {MappingSubscript(Variable(m, TRUE), keys) : m \in StorageNames, keys \in KeyLists}

ArrayCalls ==
    {FunctionCall(ArraySubscript(TypeExpr(UintT(8)), None), <<a>>) : a \in KeyAtoms}

Expressions ==
    Atoms \cup MapSlots
    \cup {Assign(t, v) : t \in Atoms \cup MapSlots, v \in KeyAtoms}
    \cup {AssignAdd(t, v) : t \in Atoms \cup MapSlots, v \in KeyAtoms}
    \cup {Binary(b, l, r) : b \in BinaryTags, l \in KeyAtoms, r \in KeyAtoms}
    \cup {Unary(u, x) : u \in UnaryTags, x \in Atoms}
    \cup {FunctionCall(Variable(<<"t","r","a","n","s","f","e","r">>, FALSE), args) : args \in KeyListsUpTo(MaxKeys)}
    \cup {New(x) : x \in ArrayCalls \cup Atoms
                     \cup {FunctionCall(Variable(<<"T","o","k","e","n">>, FALSE), <<>>)}}

SimpleStatements ==
    {Assembly, ErrorStmt, Revert, RevertNamedArgs, Break, Continue, Return(None)}
    \cup {ExpressionStmt(e) : e \in Expressions}
    \cup {Return(e) : e \in Atoms}
    \cup {VariableDefinition(VariableDeclaration(UintT(8), n), iv) :
            n \in LocalNames, iv \in {None, NumberLiteral(<<"1">>)}}

EventNames == {<<"T","r","a","n","s","f","e","r">>, <<"O","w","n","e","r","S","e","t">>}

\* Emissions of a call of a named event, and emissions of other shapes.
EmitStatements ==
    {Emit(FunctionCall(Variable(e, FALSE), args)) :
        e \in EventNames, args \in KeyListsUpTo(MaxKeys)}
    \cup {Emit(FunctionCall(Variable(<<"T","r","a","n","s","f","e","r">>, FALSE), <<New(NumberLiteral(<<"1">>))>>))}
    \cup {Emit(x) : x \in {Variable(<<"T","r","a","n","s","f","e","r">>, FALSE), NumberLiteral(<<"1">>),
                            FunctionCall(MemberAccess(Variable(<<"t","o","k","e","n">>, FALSE),
                                                      <<"T","r","a","n","s","f","e","r">>), <<>>)}}

Statements ==
    SimpleStatements \cup EmitStatements
    \cup {Block(<<a, b>>) : a \in {Assembly, Break, Return(None)},
                            b \in {Revert, ErrorStmt, Continue}}
    \cup {If(c, t, f) : c \in {Variable(<<"t","o">>, FALSE)},
                        t \in {Break, RevertNamedArgs}, f \in {None, Continue, Assembly}}

LowerExpression ==
    \E e \in Expressions :
        /\ status = "idle"
        /\ LET c == Outcome("lower_expression", [expression |-> e], LowerExpr(e))
           IN  op' = c.op /\ arg' = c.arg /\ out' = c.out /\ status' = c.status
        /\ prev' = NoCall
        /\ UNCHANGED run

LowerStatement ==
    \E st \in Statements :
        /\ status = "idle"
        /\ LET c == Outcome("lower_statement", [statement |-> st], LowerStmt(st))
           IN  op' = c.op /\ arg' = c.arg /\ out' = c.out /\ status' = c.status
        /\ prev' = NoCall
        /\ UNCHANGED run

NextLower == LowerExpression \/ LowerStatement
SpecLower == InitIdle /\ [][NextLower]_vars

(***************************************************************************)
(* Inputs: contracts.                                                      *)
(***************************************************************************)
ContractNames == {<<"T","o","k","e","n">>, <<"V","a","u","l","t">>}

BalanceSlot == MappingSubscript(Variable(<<"b","a","l","a","n","c","e","s">>, TRUE), <<Variable(<<"t","o">>, FALSE)>>)

TransferFunction ==
    Function(
        FunctionHeader(<<"t","r","a","n","s","f","e","r">>, <<FunctionParam(<<"t","o">>, AccountIdT)>>,
                       TRUE, FALSE, FALSE, <<>>, <<>>, <<>>),
        ExpressionStmt(Assign(BalanceSlot, NumberLiteral(<<"1">>))))

MintFunction ==
    Function(
        FunctionHeader(<<"m","i","n","t">>, <<FunctionParam(<<"a","m","o","u","n","t">>, UintT(128))>>,
                       FALSE, FALSE, FALSE, <<FunctionParam(<<"_">>, BoolT)>>, <<>>, <<>>),
        Return(Variable(<<"a","m","o","u","n","t">>, FALSE)))

TransferEvent ==
    Event(<<"T","r","a","n","s","f","e","r">>,
          <<EventField(TRUE, AccountIdT, <<"t","o">>, <<>>),
            EventField(FALSE, UintT(128), <<"a","m","o","u","n","t">>, <<>>)>>,
          <<>>)

\* An event with a two-word name and a field named by a Rust keyword.
OwnerSetEvent ==
    Event(<<"O","w","n","e","r","S","e","t">>, <<EventField(FALSE, AccountIdT, <<"r","e","f">>, <<>>)>>, <<>>)

OnlyOwnerModifier ==
    Modifier(
        FunctionHeader(<<"o","n","l","y","O","w","n","e","r">>, <<>>, FALSE, FALSE, FALSE, <<>>, <<>>, <<>>),
        <<ExpressionStmt(FunctionCall(Variable(<<"r","e","q","u","i","r","e">>, FALSE),
                                      <<Variable(<<"t","o">>, FALSE)>>))>>,
        <<>>)

ContractFieldLists ==
    { <<>>,
      <<ContractField(AccountIdT, <<"o","w","n","e","r">>, <<>>, None, FALSE, TRUE)>>,
      <<ContractField(UintT(128), <<"t","o","t","a","l","S","u","p","p","l","y">>, <<>>, NumberLiteral(<<"1">>), FALSE, FALSE),
        ContractField(UintT(8), <<"M","A","X">>, <<>>, NumberLiteral(<<"1">>), TRUE, TRUE)>> }

ImportSets ==
    { {}, {<<"u","s","e"," ","i","n","k",":",":","E","n","v",";">>, <<"u","s","e"," ","b","r","u","s","h",":",":","I","d",";">>} }

RoundingEnum ==
    Enum(<<"r","o","u","n","d","i","n","g","_","m","o","d","e">>, <<EnumField(<<"d","o","w","n">>, <<>>), EnumField(<<"h","a","l","f","U","p">>, <<>>)>>,
         <<>>)

FractionStruct ==
    Struct(<<"F","r","a","c","t","i","o","n">>, <<StructField(<<"n","u","m","e","r","a","t","o","r">>, UintT(128), <<>>)>>, <<>>)

\* Contracts without and with a constructor body, an enum and a struct.
Contracts ==
    {Contract(n, fs, IF full THEN StoringConstructor ELSE EmptyConstructor, evs,
              IF full THEN <<RoundingEnum>> ELSE <<>>,
              IF full THEN <<FractionStruct>> ELSE <<>>,
              fns, imps, <<>>, ms) :
        n \in ContractNames, fs \in ContractFieldLists,
        fns \in {<<>>, <<TransferFunction>>, <<TransferFunction, MintFunction>>},
        evs \in {<<>>, <<TransferEvent, OwnerSetEvent>>},
        ms \in {<<>>, <<OnlyOwnerModifier>>},
        imps \in ImportSets,
        full \in BOOLEAN}

AssembleImpl ==
    \E contract \in Contracts : \E order \in Orders(contract.imports) :
        /\ status = "idle"
        /\ LET c == Outcome("assemble_impl", [contract |-> contract],
                            assemble_impl(contract, order))
           IN  op' = c.op /\ arg' = c.arg /\ out' = c.out /\ status' = c.status
        /\ prev' = NoCall
        /\ UNCHANGED run

\* A second assemble_impl call: the same contract again, or the same
\* contract under another name.
AssembleImplAgain ==
    /\ op = "assemble_impl"
    /\ prev = NoCall
    /\ \E name \in ContractNames :
         LET contract == [arg.contract EXCEPT !.name = name]
         IN  \E order \in Orders(contract.imports) :
                /\ LET c == Outcome("assemble_impl", [contract |-> contract],
                                    assemble_impl(contract, order))
                   IN  op' = c.op /\ arg' = c.arg /\ out' = c.out /\ status' = c.status
                /\ prev' = Last
                /\ UNCHANGED run

AssembleTrait ==
    \E contract \in Contracts : \E order \in Orders(contract.imports) :
        /\ status = "idle"
        /\ LET c == Outcome("assemble_trait", [contract |-> contract],
                            assemble_trait(contract, order))
           IN  op' = c.op /\ arg' = c.arg /\ out' = c.out /\ status' = c.status
        /\ prev' = NoCall
        /\ UNCHANGED run

AssembleContract ==
    \E contract \in Contracts : \E order \in Orders(contract.imports) :
        /\ status = "idle"
        /\ LET c == Outcome("assemble_contract", [contract |-> contract],
                            assemble_contract(contract, order))
           IN  op' = c.op /\ arg' = c.arg /\ out' = c.out /\ status' = c.status
        /\ prev' = NoCall
        /\ UNCHANGED run

NextContract == AssembleImpl \/ AssembleImplAgain \/ AssembleTrait \/ AssembleContract
SpecContract == InitIdle /\ [][NextContract]_vars

(***************************************************************************)
(* Inputs: event lists.                                                    *)
(***************************************************************************)
EventFieldNames == {<<"f","r","o","m">>, <<"v","a","l","u","e">>, <<"f","n">>}

EventFieldPool ==
    {EventField(indexed, IF n = <<"v","a","l","u","e">> THEN UintT(128) ELSE AccountIdT, n, <<>>) :
        indexed \in BOOLEAN, n \in EventFieldNames}

RECURSIVE EventFieldListsUpTo(_)
EventFieldListsUpTo(n) ==
    IF n = 0 THEN {<<>>}
    ELSE LET shorter == EventFieldListsUpTo(n - 1)
         IN  shorter \cup
             {Append(l, f) : l \in {x \in shorter : Len(x) = n - 1}, f \in EventFieldPool}

EventPool ==
    {Event(n, fields, <<>>) :
        n \in {<<"A","p","p","r","o","v","a","l">>, <<"D","e","p","o","s","i","t">>},
        fields \in {l \in EventFieldListsUpTo(MaxFields) : DistinctNames(l)}}

EventLists == {<<>>} \cup {<<e>> : e \in EventPool} \cup {<<e, TransferEvent>> : e \in EventPool}

AssembleEvents ==
    \E events \in EventLists :
        /\ status = "idle"
        /\ LET c == Outcome("assemble_events", [events |-> events], assemble_events(events))
           IN  op' = c.op /\ arg' = c.arg /\ out' = c.out /\ status' = c.status
        /\ prev' = NoCall
        /\ UNCHANGED run

NextEvents == AssembleEvents
SpecEvents == InitIdle /\ [][NextEvents]_vars

(***************************************************************************)
(* Inputs: libraries.                                                      *)
(***************************************************************************)
\* Library functions: external or not, view or not.
LibraryFunctionPool ==
    {Function(FunctionHeader(<<"m","u","l","D","i","v">>, <<FunctionParam(<<"a","m","o","u","n","t">>, UintT(128))>>,
                             external, view, FALSE,
                             <<FunctionParam(<<"_">>, UintT(128))>>, <<>>, <<>>),
              Return(Variable(<<"a","m","o","u","n","t">>, FALSE))) :
        external \in BOOLEAN, view \in BOOLEAN}

LibraryFunctionLists ==
    {<<>>} \cup {<<f>> : f \in LibraryFunctionPool}
    \cup {<<f, g>> : f \in LibraryFunctionPool, g \in LibraryFunctionPool}

MaxConstant == ContractField(UintT(8), <<"M","A","X">>, <<>>, NumberLiteral(<<"1">>), TRUE, FALSE)

Libraries ==
    {Library(<<"M","a","t","h">>, fs, evs, ens, sts, fns, imps, <<>>) :
        fs \in {<<>>, <<MaxConstant>>},
        evs \in {<<>>, <<TransferEvent>>},
        ens \in {<<>>, <<RoundingEnum>>},
        sts \in {<<>>, <<FractionStruct>>},
        fns \in LibraryFunctionLists,
        imps \in ImportSets}

AssembleLibrary ==
    \E library \in Libraries : \E order \in Orders(library.imports) :
        /\ status = "idle"
        /\ LET c == Outcome("assemble_library", [library |-> library],
                            assemble_library(library, order))
           IN  op' = c.op /\ arg' = c.arg /\ out' = c.out /\ status' = c.status
        /\ prev' = NoCall
        /\ UNCHANGED run

NextLibrary == AssembleLibrary
SpecLibrary == InitIdle /\ [][NextLibrary]_vars

(***************************************************************************)
(* Inputs: functions whose header and implementation are both assembled.   *)
(***************************************************************************)
\* Function names: plain, of two words, and two Rust keywords.
SignatureNames == {<<"t","r","a","n","s","f","e","r">>, <<"m","u","l","D","i","v">>, <<"m","o","v","e">>, <<"f","n">>}

SignatureParamLists ==
    {<<>>, <<FunctionParam(<<"t","o">>, AccountIdT), FunctionParam(<<"r","e","f">>, UintT(128))>>}

SignatureReturnLists ==
    {<<>>, <<FunctionParam(<<"_">>, BoolT)>>,
     <<FunctionParam(<<"l","o","w">>, UintT(8)), FunctionParam(<<"h","i","g","h">>, UintT(8))>>}

SignatureFunctions ==
    {Function(FunctionHeader(n, ps, external, view, FALSE, rs, <<>>, <<>>),
              ExpressionStmt(FunctionCall(Variable(<<"c","h","e","c","k">>, FALSE), <<>>))) :
        n \in SignatureNames, ps \in SignatureParamLists, rs \in SignatureReturnLists,
        external \in BOOLEAN, view \in BOOLEAN}

AssembleFunctionHeaders ==
    \E function \in SignatureFunctions :
        /\ status = "idle"
        /\ LET c == Outcome("assemble_function_headers", [function |-> function],
                            assemble_function_headers(<<function.header>>))
           IN  op' = c.op /\ arg' = c.arg /\ out' = c.out /\ status' = c.status
        /\ prev' = NoCall
        /\ UNCHANGED run

\* The implementation of the function whose header was assembled.
AssembleFunctionsAfter ==
    /\ op = "assemble_function_headers"
    /\ prev = NoCall
    /\ LET c == Outcome("assemble_functions", arg, assemble_functions(<<arg.function>>, FALSE))
       IN  op' = c.op /\ arg' = c.arg /\ out' = c.out /\ status' = c.status
    /\ prev' = Last
    /\ UNCHANGED run

NextSignatures == AssembleFunctionHeaders \/ AssembleFunctionsAfter
SpecSignatures == InitIdle /\ [][NextSignatures]_vars

(***************************************************************************)
(* Inputs: modifier lists.                                                 *)
(***************************************************************************)
\* The `_;` of a Solidity modifier: an expression statement of the name `_`.
Placeholder == ExpressionStmt(Variable(<<"_">>, FALSE))

RequireTo ==
    ExpressionStmt(FunctionCall(Variable(<<"r","e","q","u","i","r","e">>, FALSE), <<Variable(<<"t","o">>, FALSE)>>))

CheckCall == ExpressionStmt(FunctionCall(Variable(<<"c","h","e","c","k">>, FALSE), <<>>))

\* Statement lists with at most one placeholder.
ModifierBodies ==
    {<<>>}
    \cup {<<a>> : a \in {Placeholder, RequireTo, CheckCall}}
    \cup {<<a, b>> : a \in {RequireTo, CheckCall}, b \in {Placeholder, RequireTo, CheckCall}}
    \cup {<<Placeholder, b>> : b \in {RequireTo, CheckCall}}
    \cup {<<a, Placeholder, b>> : a \in {RequireTo, CheckCall}, b \in {RequireTo, CheckCall}}

ModifierPool ==
    {Modifier(FunctionHeader(n, ps, FALSE, FALSE, FALSE, <<>>, <<>>, <<>>), body, <<>>) :
        n \in {<<"o","n","l","y","O","w","n","e","r">>, <<"l","o","c","k">>},
        ps \in {<<>>, <<FunctionParam(<<"t","o">>, AccountIdT)>>},
        body \in ModifierBodies}

ModifierLists ==
    {<<>>} \cup {<<m>> : m \in ModifierPool} \cup {<<OnlyOwnerModifier, m>> : m \in ModifierPool}

AssembleModifiers ==
    \E modifiers \in ModifierLists : \E name \in ContractNames :
        /\ status = "idle"
        /\ LET c == Outcome("assemble_modifiers",
                            [modifiers |-> modifiers, contract_name |-> name],
                            assemble_modifiers(modifiers, FormatIdent(name)))
           IN  op' = c.op /\ arg' = c.arg /\ out' = c.out /\ status' = c.status
        /\ prev' = NoCall
        /\ UNCHANGED run

NextModifiers == AssembleModifiers
SpecModifiers == InitIdle /\ [][NextModifiers]_vars

(***************************************************************************)
(* Execution of an emitted function body.                                  *)
(* The emitted tokens are Rust, and what a translated function does is     *)
(* what Rust does with them.  A run is a position in the token stream, the *)
(* values of the variables in scope, the calls made so far and the value   *)
(* returned.  Integers are u8; a call of another translated function       *)
(* fails when the callee is one of the run's failing functions.            *)
(***************************************************************************)
BoolV(b) == [t |-> "bool", v |-> IF b THEN 1 ELSE 0]
UintV(n) == [t |-> "uint", v |-> n]
IllTyped == [t |-> "error", v |-> 0]
Holds(value) == value.t = "bool" /\ value.v = 1

IntModulus == 2 ^ IntBits

Max(S) == CHOOSE x \in S : \A y \in S : y <= x
Min(S) == CHOOSE x \in S : \A y \in S : x <= y

Opens == {<<"(">>, <<"{">>, <<"[">>}
Closes == {<<")">>, <<"}">>, <<"]">>}

\* The close matching an open, scanning forward from i at the given depth;
\* 0 when there is none.
RECURSIVE MatchClose(_, _, _)
MatchClose(ts, i, depth) ==
    IF i > Len(ts) THEN 0
    ELSE IF ts[i] \in Opens THEN MatchClose(ts, i + 1, depth + 1)
    ELSE IF ts[i] \in Closes
         THEN IF depth = 0 THEN i ELSE MatchClose(ts, i + 1, depth - 1)
    ELSE MatchClose(ts, i + 1, depth)

\* The open matching a close, scanning backward from i.
RECURSIVE MatchOpen(_, _, _)
MatchOpen(ts, i, depth) ==
    IF i < 1 THEN 0
    ELSE IF ts[i] \in Closes THEN MatchOpen(ts, i - 1, depth + 1)
    ELSE IF ts[i] \in Opens
         THEN IF depth = 0 THEN i ELSE MatchOpen(ts, i - 1, depth - 1)
    ELSE MatchOpen(ts, i - 1, depth)

\* The positions of the given operators outside every bracket.
DepthAt(ts, i) ==
    Cardinality({j \in 1..(i - 1) : ts[j] \in Opens})
    - Cardinality({j \in 1..(i - 1) : ts[j] \in Closes})
TopLevel(ts, operators) == {i \in DOMAIN ts : ts[i] \in operators /\ DepthAt(ts, i) = 0}

\* The number a decimal literal denotes.
DigitValue(c) == (CHOOSE k \in DOMAIN DigitChars : DigitChars[k] = c) - 1
RECURSIVE Number(_)
Number(digits) ==
    IF digits = <<>> THEN 0
    ELSE 10 * Number(SubSeq(digits, 1, Len(digits) - 1)) + DigitValue(digits[Len(digits)])
IsNumber(token) == token # <<>> /\ \A k \in DOMAIN token : IsDigit(token[k])

\* Rust's operators on values.  `!` is logical on a bool and bitwise on an
\* integer; a comparison needs operands of one type; `||` needs two bools.
NotV(x) ==
    CASE x.t = "bool" -> BoolV(x.v = 0)
      [] x.t = "uint" -> UintV(IntModulus - 1 - x.v)
      [] OTHER -> IllTyped

OrV(x, y) ==
    IF x.t = "bool" /\ y.t = "bool" THEN BoolV(x.v = 1 \/ y.v = 1) ELSE IllTyped

ComparisonTokens == {<<"==">>, <<"!=">>, <<"<">>, <<">=">>}

CompareV(operator, x, y) ==
    IF x.t # y.t \/ x.t = "error" THEN IllTyped
    ELSE CASE operator = <<"==">> -> BoolV(x.v = y.v)
           [] operator = <<"!=">> -> BoolV(x.v # y.v)
           [] operator = <<"<">>  -> BoolV(x.v < y.v)
           [] operator = <<">=">> -> BoolV(x.v >= y.v)

AtomV(ts, env) ==
    IF Len(ts) # 1 THEN IllTyped
    ELSE IF ts[1] \in DOMAIN env THEN env[ts[1]]
    ELSE IF IsNumber(ts[1]) /\ Number(ts[1]) < IntModulus THEN UintV(Number(ts[1]))
    ELSE IllTyped

\* The value of an expression, parsed with Rust's precedence: `||` binds
\* loosest, then the comparisons (which do not chain), then unary `!`, then
\* a parenthesised expression or an atom.
RECURSIVE Eval(_, _)
Eval(ts, env) ==
    LET ors == TopLevel(ts, {<<"||">>})
        comparisons == TopLevel(ts, ComparisonTokens)
    IN  IF ts = <<>> THEN IllTyped
        ELSE IF ors # {}
        THEN OrV(Eval(SubSeq(ts, 1, Max(ors) - 1), env),
                 Eval(SubSeq(ts, Max(ors) + 1, Len(ts)), env))
        ELSE IF Cardinality(comparisons) > 1 THEN IllTyped
        ELSE IF comparisons # {}
        THEN CompareV(ts[Max(comparisons)],
                      Eval(SubSeq(ts, 1, Max(comparisons) - 1), env),
                      Eval(SubSeq(ts, Max(comparisons) + 1, Len(ts)), env))
        ELSE IF ts[1] = <<"!">> THEN NotV(Eval(Tail(ts), env))
        ELSE IF ts[1] = <<"(">> /\ MatchClose(ts, 2, 0) = Len(ts)
        THEN Eval(SubSeq(ts, 2, Len(ts) - 1), env)
        ELSE AtomV(ts, env)

\* What the source expression means: the value the contract's author wrote.
RECURSIVE EvalIR(_, _)
EvalIR(e, env) ==
    CASE e.tag = "Variable" -> env[ToSnake(e.name)]
      [] e.tag = "NumberLiteral" -> UintV(Number(e.value))
      [] e.tag = "Or" -> BoolV(Holds(EvalIR(e.left, env)) \/ Holds(EvalIR(e.right, env)))
      [] e.tag = "Equal" -> BoolV(EvalIR(e.left, env) = EvalIR(e.right, env))
      [] e.tag = "NotEqual" -> BoolV(EvalIR(e.left, env) # EvalIR(e.right, env))
      [] e.tag = "Less" -> BoolV(EvalIR(e.left, env).v < EvalIR(e.right, env).v)
      [] e.tag = "MoreEqual" -> BoolV(EvalIR(e.left, env).v >= EvalIR(e.right, env).v)

\* Blocks: the `{` that opens the block of the `if` / `while` at pc, the
\* keyword a block belongs to, and where control goes past a block.
BlockHeads == {<<"if">>, <<"while">>, <<"loop">>, <<"else">>}
OpenAfter(prog, pc) == Min({j \in (pc + 1)..Len(prog) : prog[j] = <<"{">>})
HeadPos(prog, open) == Max({j \in 1..(open - 1) : prog[j] \in BlockHeads})
AfterBlock(prog, open) ==
    LET close == MatchClose(prog, open + 1, 0)
    IN  IF close < Len(prog) /\ prog[close + 1] = <<"else">> THEN close + 3 ELSE close + 1
EnclosingLoops(prog, pc) ==
    {j \in 1..(pc - 1) : /\ prog[j] = <<"{">>
                         /\ MatchClose(prog, j + 1, 0) > pc
                         /\ prog[HeadPos(prog, j)] \in {<<"loop">>, <<"while">>}}
NextSemi(prog, pc) == Min({j \in pc..Len(prog) : prog[j] = <<";">>})

\* `callee ( args ) . is_err ( )`
IsCallTest(condition) ==
    /\ Len(condition) >= 5
    /\ SubSeq(condition, Len(condition) - 3, Len(condition)) = Q(<<".", "is_err", "(", ")">>)

\* The results of a run.
NoResult == [tag |-> "None", value |-> <<>>]
Rejected == [tag |-> "Rejected", value |-> <<>>]       \* the compiler refuses the code
Panicked == [tag |-> "Panic", value |-> <<>>]          \* arithmetic overflow
Returned(tag, value) == [tag |-> tag, value |-> value]

\* x op= y on u8: out of range, the build decides between a panic
\* (overflow-checks on) and wrapping.
Overflowed == [t |-> "overflow", v |-> 0]
Refused == [t |-> "refused", v |-> 0]
ArithOutcomes(x) ==
    IF x \in 0..(IntModulus - 1) THEN {UintV(x)} ELSE {UintV(x % IntModulus), Overflowed}

AssignOutcomes(operator, old, new) ==
    IF old.t # new.t \/ new.t = "error" THEN {Refused}
    ELSE CASE operator = <<"=">> -> {new}
           [] operator = <<"+=">> -> IF new.t = "uint" THEN ArithOutcomes(old.v + new.v)
                                     ELSE {Refused}
           [] operator = <<"-=">> -> IF new.t = "uint" THEN ArithOutcomes(old.v - new.v)
                                     ELSE {Refused}

(***************************************************************************)
(* Inputs: functions to run, their arguments and the failing callees.      *)
(***************************************************************************)
Callee == Variable(<<"g">>, FALSE)
CallStatement == ExpressionStmt(FunctionCall(Callee, <<>>))
Counter == Variable(<<"i">>, FALSE)
Limit == Variable(<<"n">>, FALSE)
FlagP == Variable(<<"p">>, FALSE)
FlagQ == Variable(<<"q">>, FALSE)

CounterConditions ==
    {Binary(b, Counter, Limit) : b \in {"Less", "MoreEqual", "Equal", "NotEqual"}}
FlagConditions == {FlagP, Binary("Or", FlagP, FlagQ)}
Conditions == CounterConditions \cup FlagConditions

Messages == {StringLiteral(<<<<"l","o","w">>>>)}

\* The parameters a condition reads.
ParamsOf(condition) ==
    IF condition \in CounterConditions
    THEN <<FunctionParam(<<"i">>, UintT(IntBits)), FunctionParam(<<"n">>, UintT(IntBits))>>
    ELSE IF condition = FlagP THEN <<FunctionParam(<<"p">>, BoolT)>>
    ELSE <<FunctionParam(<<"p">>, BoolT), FunctionParam(<<"q">>, BoolT)>>

RunFunction(params, body) ==
    Function(FunctionHeader(<<"f">>, params, TRUE, FALSE, FALSE, <<>>, <<>>, <<>>), body)

RequireCalls ==
    {FunctionCall(Variable(<<"r","e","q","u","i","r","e">>, FALSE), <<c>>) : c \in Conditions}
    \cup {FunctionCall(Variable(<<"r","e","q","u","i","r","e">>, FALSE), <<c, m>>) :
            c \in Conditions, m \in Messages}

CounterDeclaration ==
    VariableDefinition(VariableDeclaration(UintT(IntBits), <<"i">>), NumberLiteral(<<"0">>))

LoopBodies ==
    {CallStatement, ExpressionStmt(Unary("PostIncrement", Counter)),
     ExpressionStmt(Unary("PostDecrement", Counter))}

\* for (uint8 i = 0; i < n; i++) { g(); if (p) continue; }
ContinueLoop ==
    For(Block(<<CallStatement, If(FlagP, Continue, None)>>), CounterDeclaration,
        Binary("Less", Counter, Limit), ExpressionStmt(Unary("PostIncrement", Counter)))

ContinueParams == <<FunctionParam(<<"n">>, UintT(IntBits)), FunctionParam(<<"p">>, BoolT)>>

RunFunctions ==
    {RunFunction(<<>>, CallStatement), RunFunction(<<>>, Try(FunctionCall(Callee, <<>>)))}
    \cup {RunFunction(ContinueParams, ContinueLoop)}
    \cup {RunFunction(ParamsOf(r.args[1]), ExpressionStmt(r)) : r \in RequireCalls}
    \cup {RunFunction(ParamsOf(c),
                      For(CallStatement, CounterDeclaration, c,
                          ExpressionStmt(Unary("PostIncrement", Counter)))) : c \in Conditions}
    \cup {RunFunction(ParamsOf(c), DoWhile(b, c)) : c \in CounterConditions, b \in LoopBodies}
    \cup {RunFunction(ParamsOf(c), DoWhile(CallStatement, c)) : c \in FlagConditions}
    \cup {RunFunction(ParamsOf(c), While(c, CallStatement)) : c \in FlagConditions}
    \cup {RunFunction(ParamsOf(c), If(c, Return(NumberLiteral(<<"1">>)), CallStatement)) :
            c \in FlagConditions}

\* The arguments of a call: one value of its type for every parameter.
ArgumentValues == {BoolV(TRUE), BoolV(FALSE)} \cup {UintV(k) : k \in 0..MaxCount}
TypeTag(ty) == IF ty.tag = "Bool" THEN "bool" ELSE "uint"
Arguments(params) ==
    {env \in [{format_expression(params[k].name) : k \in DOMAIN params} -> ArgumentValues] :
        \A k \in DOMAIN params :
            env[format_expression(params[k].name)].t = TypeTag(params[k].param_type)}

Callees == {Ident(ToSnake(Callee.name))[1]}

(***************************************************************************)
(* Steps of a run.                                                         *)
(***************************************************************************)
Running ==
    /\ run.active
    /\ run.result = NoResult
    /\ run.steps < MaxSteps
    /\ run.pc <= Len(run.prog)

\* assemble_functions emits the body of a function; a caller enters it.
StartRun ==
    \E function \in RunFunctions, failing \in SUBSET Callees :
        \E env \in Arguments(function.header.params) :
            /\ status = "idle"
            /\ LET c == Outcome("function_body", [function |-> function], FunctionBody(function))
               IN  /\ op' = c.op /\ arg' = c.arg /\ out' = c.out /\ status' = c.status
                   /\ run' = IF c.status = "aborted" THEN NoRun
                             ELSE [active |-> TRUE, function |-> function, prog |-> c.out,
                                   pc |-> 1, env |-> env, failing |-> failing,
                                   trace |-> <<>>, result |-> NoResult, steps |-> 0]
            /\ prev' = NoCall

\* ;
StepSemi ==
    /\ Running
    /\ run.prog[run.pc] = <<";">>
    /\ run' = [run EXCEPT !.pc = @ + 1, !.steps = @ + 1]
    /\ UNCHANGED <<op, arg, out, status, prev>>

\* let mut x : T = e ;
StepLet ==
    /\ Running
    /\ run.prog[run.pc] = <<"let">>
    /\ LET end == NextSemi(run.prog, run.pc)
           equals == Min({j \in run.pc..end : run.prog[j] = <<"=">>})
           name == run.prog[run.pc + 2]
           value == Eval(SubSeq(run.prog, equals + 1, end - 1), run.env)
       IN  run' = [run EXCEPT
                !.env = [k \in DOMAIN run.env \cup {name} |->
                            IF k = name THEN value ELSE run.env[k]],
                !.result = IF value.t = "error" THEN Rejected ELSE @,
                !.pc = end + 1,
                !.steps = @ + 1]
    /\ UNCHANGED <<op, arg, out, status, prev>>

\* x = e ;   x += e ;   x -= e ;
StepAssign ==
    /\ Running
    /\ run.prog[run.pc] \in DOMAIN run.env
    /\ run.prog[run.pc + 1] \in {<<"=">>, <<"+=">>, <<"-=">>}
    /\ LET end == NextSemi(run.prog, run.pc)
           name == run.prog[run.pc]
           value == Eval(SubSeq(run.prog, run.pc + 2, end - 1), run.env)
       IN  \E outcome \in AssignOutcomes(run.prog[run.pc + 1], run.env[name], value) :
              run' = [run EXCEPT
                   !.env = IF outcome.t \in {"bool", "uint"}
                           THEN [run.env EXCEPT ![name] = outcome] ELSE @,
                   !.result = CASE outcome = Refused -> Rejected
                                [] outcome = Overflowed -> Panicked
                                [] OTHER -> @,
                   !.pc = end + 1,
                   !.steps = @ + 1]
    /\ UNCHANGED <<op, arg, out, status, prev>>

\* callee ( args ) ;   The Result the callee returns is dropped unless the
\* call is followed by `?`.
StepCall ==
    /\ Running
    /\ run.prog[run.pc] \in Callees
    /\ run.prog[run.pc + 1] = <<"(">>
    /\ LET close == MatchClose(run.prog, run.pc + 2, 0)
           failed == run.prog[run.pc] \in run.failing
           propagates == run.prog[close + 1] = <<"?">>
       IN  run' = [run EXCEPT
                !.trace = Append(@, [callee |-> run.prog[run.pc], failed |-> failed]),
                !.result = IF failed /\ propagates
                           THEN Returned("Err", <<run.prog[run.pc]>>) ELSE @,
                !.pc = IF propagates THEN close + 3 ELSE close + 2,
                !.steps = @ + 1]
    /\ UNCHANGED <<op, arg, out, status, prev>>

\* if callee ( args ) . is_err ( ) {
StepTry ==
    /\ Running
    /\ run.prog[run.pc] = <<"if">>
    /\ LET open == OpenAfter(run.prog, run.pc)
           condition == SubSeq(run.prog, run.pc + 1, open - 1)
       IN  /\ IsCallTest(condition)
           /\ run' = [run EXCEPT
                !.trace = Append(@, [callee |-> condition[1],
                                     failed |-> condition[1] \in run.failing]),
                !.pc = IF condition[1] \in run.failing
                       THEN open + 1 ELSE AfterBlock(run.prog, open),
                !.steps = @ + 1]
    /\ UNCHANGED <<op, arg, out, status, prev>>

\* if e {   while e {
StepIf ==
    /\ Running
    /\ run.prog[run.pc] \in {<<"if">>, <<"while">>}
    /\ LET open == OpenAfter(run.prog, run.pc)
           condition == SubSeq(run.prog, run.pc + 1, open - 1)
           value == Eval(condition, run.env)
       IN  /\ ~IsCallTest(condition)
           /\ run' = [run EXCEPT
                !.result = IF value.t = "bool" THEN @ ELSE Rejected,
                !.pc = IF Holds(value) THEN open + 1 ELSE AfterBlock(run.prog, open),
                !.steps = @ + 1]
    /\ UNCHANGED <<op, arg, out, status, prev>>

\* loop {
StepLoop ==
    /\ Running
    /\ run.prog[run.pc] = <<"loop">>
    /\ run' = [run EXCEPT !.pc = @ + 2, !.steps = @ + 1]
    /\ UNCHANGED <<op, arg, out, status, prev>>

\* } : the end of a loop body goes round, the end of a while body goes
\* back to its test, the end of an if block skips its else block.
StepBlockEnd ==
    /\ Running
    /\ run.prog[run.pc] = <<"}">>
    /\ LET open == MatchOpen(run.prog, run.pc - 1, 0)
           head == HeadPos(run.prog, open)
       IN  run' = [run EXCEPT
                !.pc = CASE run.prog[head] = <<"loop">> -> open + 1
                         [] run.prog[head] = <<"while">> -> head
                         [] run.prog[head] = <<"if">> -> AfterBlock(run.prog, open)
                         [] OTHER -> run.pc + 1,
                !.steps = @ + 1]
    /\ UNCHANGED <<op, arg, out, status, prev>>

\* break
StepBreak ==
    /\ Running
    /\ run.prog[run.pc] = <<"break">>
    /\ LET loops == EnclosingLoops(run.prog, run.pc)
       IN  run' = [run EXCEPT
                !.result = IF loops = {} THEN Rejected ELSE @,
                !.pc = IF loops = {} THEN @ ELSE MatchClose(run.prog, Max(loops) + 1, 0) + 1,
                !.steps = @ + 1]
    /\ UNCHANGED <<op, arg, out, status, prev>>

\* continue : control goes to the start of the innermost loop body, or to
\* the test of the innermost while.
StepContinue ==
    /\ Running
    /\ run.prog[run.pc] = <<"continue">>
    /\ LET loops == EnclosingLoops(run.prog, run.pc)
           head == HeadPos(run.prog, Max(loops))
       IN  run' = [run EXCEPT
                !.result = IF loops = {} THEN Rejected ELSE @,
                !.pc = IF loops = {} THEN @
                       ELSE IF run.prog[head] = <<"while">> THEN head
                       ELSE Max(loops) + 1,
                !.steps = @ + 1]
    /\ UNCHANGED <<op, arg, out, status, prev>>

\* return Ok ( e )   return Err ( e )
StepReturn ==
    /\ Running
    /\ run.prog[run.pc] = <<"return">>
    /\ LET close == MatchClose(run.prog, run.pc + 3, 0)
       IN  run' = [run EXCEPT
                !.result = Returned(run.prog[run.pc + 1][1],
                                    SubSeq(run.prog, run.pc + 3, close - 1)),
                !.steps = @ + 1]
    /\ UNCHANGED <<op, arg, out, status, prev>>

\* Ok ( e ) as the last expression of the body
StepTail ==
    /\ Running
    /\ run.prog[run.pc] = <<"Ok">>
    /\ LET close == MatchClose(run.prog, run.pc + 2, 0)
       IN  run' = [run EXCEPT
                !.result = Returned("Ok", SubSeq(run.prog, run.pc + 2, close - 1)),
                !.steps = @ + 1]
    /\ UNCHANGED <<op, arg, out, status, prev>>

NextRun ==
    \/ StartRun \/ StepSemi \/ StepLet \/ StepAssign \/ StepCall \/ StepTry \/ StepIf
    \/ StepLoop \/ StepBlockEnd \/ StepBreak \/ StepContinue \/ StepReturn \/ StepTail
SpecRun == InitIdle /\ [][NextRun]_vars

(***************************************************************************)
(* Properties.                                                             *)
(***************************************************************************)
Called(name) == op = name /\ status # "idle"

\* The number of functions named `name` that the tokens declare or define.
AccessorCount(ts, name) ==
    Cardinality({i \in 1..(Len(ts) - 1) : ts[i] = <<"fn">> /\ ts[i + 1] = name})

FunctionCount(ts) == Cardinality({i \in DOMAIN ts : ts[i] = <<"fn">>})

HasToken(ts, text) == \E i \in DOMAIN ts : ts[i] = <<text>>

\* C1: the trait output and the implementation output each hold exactly one
\* accessor for every public non-constant field, and none for a constant or
\* a non-public field.
GettersExactlyPublicNonConstant ==
    (Called("assemble_getters") \/ Called("assemble_getters_trait")) =>
        /\ status = "done"
        /\ \A i \in DOMAIN arg.fields :
              AccessorCount(out, ToSnake(arg.fields[i].name)) =
                 IF arg.fields[i].public /\ ~arg.fields[i].constant THEN 1 ELSE 0
        /\ FunctionCount(out) =
              Cardinality({i \in DOMAIN arg.fields :
                              arg.fields[i].public /\ ~arg.fields[i].constant})

\* C1, the half the implementation output satisfies.
ImplGettersExactlyPublicNonConstant == Called("assemble_getters") => GettersExactlyPublicNonConstant

\* The constructs the lowering does not translate.
IsUnsupported(x) ==
    \/ x.tag \in UnsupportedTags
    \/ x.tag = "New" /\ ~(x.new.tag = "FunctionCall" /\ x.new.function.tag = "ArraySubscript")

IsMarker(token) == token \in {<<"todo">>, <<"unimplemented">>}

\* C3: lowering a construct that is not supported completes, and its output
\* holds an explicit unimplemented marker.
UnsupportedLowersToMarker ==
    /\ (Called("lower_statement") /\ IsUnsupported(arg.statement)) =>
            status = "done" /\ \E i \in DOMAIN out : IsMarker(out[i])
    /\ (Called("lower_expression") /\ IsUnsupported(arg.expression)) =>
            status = "done" /\ \E i \in DOMAIN out : IsMarker(out[i])

IsMapAssign(e) == e.tag = "Assign" /\ e.variable.tag = "MappingSubscript"

\* m.insert(&(k1, .., kn), &v)
InsertCall(m, keys, v) ==
    m \o << <<".">>, <<"insert">>, <<"(">>, <<"&">>, <<"(">> >>
    \o Separated(keys, <<",">>)
    \o << <<")">>, <<",">>, <<"&">> >> \o v \o << <<")">> >>

\* C4: a plain assignment to a map slot lowers to
\* m.insert(&(k1, .., kn), &v), the keys in their order, and never to an
\* index store m[..] = v.
MapAssignLowersToInsert ==
    (Called("lower_expression") /\ IsMapAssign(arg.expression)) =>
        LET e == arg.expression
        IN  /\ status = "done"
            /\ out = InsertCall(LowerExpr(e.variable.array),
                                [i \in DOMAIN e.variable.indices |-> LowerExpr(e.variable.indices[i])],
                                LowerExpr(e.value))
            /\ ~HasToken(out, "=") /\ ~HasToken(out, "[")

MapAssignLowered ==
    /\ Called("lower_expression") /\ IsMapAssign(arg.expression) /\ status = "done"
    /\ Len(arg.expression.variable.indices) = 2
    /\ arg.expression.variable.indices[1] # arg.expression.variable.indices[2]

\* C6: the identifier the normalizer returns is never a reserved word.
NormalizedNeverReserved == Called("format_expression") => out \notin RUST_KEYWORDS

\* C7: normalizing a normalized name changes nothing, and the placeholder
\* `_` is returned unchanged.
NormalizationIdempotent ==
    /\ (Called("format_expression") /\ prev.op = "format_expression") => out = prev.out
    /\ (Called("format_expression") /\ arg.name = <<"_">>) => out = <<"_">>

\* The expression the storage record's STORAGE_KEY is bound to.
KeyExpr(ts) ==
    LET i == CHOOSE i \in DOMAIN ts : ts[i] = <<"STORAGE_KEY">> /\ ts[i + 1] = <<":">>
        j == CHOOSE j \in DOMAIN ts : j > i /\ ts[j] = <<";">>
                                      /\ \A k \in (i + 1)..(j - 1) : ts[k] # <<";">>
    IN  SubSeq(ts, i + 4, j - 1)

\* C5: the storage key is a function of the contract name: the same name
\* yields the same key and different names yield different keys.
StorageKeyFollowsName ==
    (Called("assemble_impl") /\ prev.op = "assemble_impl"
        /\ status = "done" /\ prev.status = "done") =>
        (arg.contract.name = prev.arg.contract.name <=> KeyExpr(out) = KeyExpr(prev.out))

(***************************************************************************)
(* Properties of runs.                                                     *)
(***************************************************************************)
Finished == run.active /\ run.result # NoResult

\* C2: a run in which a called function failed never returns a success:
\* when the callee returns a failure, so does the caller.
FailedCallPropagates ==
    (Finished /\ \E k \in DOMAIN run.trace : run.trace[k].failed) => run.result.tag = "Err"

\* A failed call made through a try statement does propagate.
FailedTryPropagates ==
    (Finished /\ run.function.body.tag = "Try" /\ \E k \in DOMAIN run.trace : run.trace[k].failed)
        => run.result.tag = "Err"

\* The run of a function whose body is one call of require.
RequireRun ==
    /\ run.active
    /\ run.function.body.tag = "Expression"
    /\ run.function.body.expression.tag = "FunctionCall"
    /\ run.function.body.expression.function = Variable(<<"r","e","q","u","i","r","e">>, FALSE)

\* The message a call of require carries: the one given, or the default.
RequireMessage(args) ==
    IF Len(args) > 1 THEN LowerExpr(args[2]) ELSE StrLit(DefaultRequireMessage)

\* C8: a function whose body is require(condition[, message]) returns the
\* typed failure Error::Custom(String::from(message)), with the default
\* message when none is given, exactly when the condition is false on its
\* arguments, and succeeds when the condition is true.
RequireFailsExactlyWhenConditionFalse ==
    (RequireRun /\ Finished) =>
        LET args == run.function.body.expression.args
        IN  IF Holds(EvalIR(args[1], run.env))
            THEN run.result = Returned("Ok", Q(<<"(", ")">>))
            ELSE run.result =
                    Returned("Err", Q(<<"Error", "::", "Custom", "(", "String", "::", "from", "(">>)
                                    \o RequireMessage(args) \o Q(<<")", ")">>))

\* Reached: a require with a message failed on a false comparison.
RequireFailed ==
    /\ RequireRun /\ Finished
    /\ Len(run.function.body.expression.args) = 2
    /\ run.function.body.expression.args[1].tag = "Less"
    /\ run.result.tag = "Err"

\* The run is at the test `if ! C { break }` of a lowered loop.
AtLoopGuard ==
    /\ Running
    /\ run.prog[run.pc] = <<"if">>
    /\ LET open == OpenAfter(run.prog, run.pc)
       IN  SubSeq(run.prog, open, open + 2) = Q(<<"{", "break", "}">>)

\* The loop is left at its test.
GuardBreaks ==
    LET open == OpenAfter(run.prog, run.pc)
    IN  Holds(Eval(SubSeq(run.prog, run.pc + 1, open - 1), run.env))

\* Where the lowered for statement stands: before its test, or past it.
ForShape ==
    LET body == LowerStmt(run.function.body.body)
        declaration == LowerStmt(run.function.body.declaration)
        on_pass == LowerStmt(run.function.body.on_pass)
        start == Len(declaration) + 4
    IN  /\ SubSeq(run.prog, 1, start - 1) = declaration \o Q(<<";", "loop", "{">>)
        /\ run.prog[start] = <<"if">>
        /\ LET open == OpenAfter(run.prog, start)
           IN  SubSeq(run.prog, open, Len(run.prog)) =
                    Q(<<"{", "break", "}">>) \o body \o on_pass \o Q(<<"}", "Ok", "(", "(", ")", ")">>)

\* C9: a for statement runs as I; repeat { if not C then break; B; P }: the
\* emitted code is I, then a loop of the test, B and P, and at the test
\* the loop is left exactly when C is false.
ForIsInitThenTestBodyPost ==
    (run.active /\ run.function.body.tag = "For") =>
        /\ ForShape
        /\ AtLoopGuard => (GuardBreaks <=> ~Holds(EvalIR(run.function.body.condition, run.env)))

\* The lowered do-while: loop { B if ! C { break } }.
DoWhileShape ==
    LET body == LowerStmt(run.function.body.body)
        start == Len(body) + 3
    IN  /\ SubSeq(run.prog, 1, start - 1) = Q(<<"loop", "{">>) \o body
        /\ run.prog[start] = <<"if">>
        /\ LET open == OpenAfter(run.prog, start)
           IN  SubSeq(run.prog, open, Len(run.prog)) =
                    Q(<<"{", "break", "}", "}", "Ok", "(", "(", ")", ")">>)

\* C10: a do-while statement runs as repeat { B; if not C then break }: the
\* emitted code is a loop of B and then the test, so B runs before the
\* first test, and at the test the loop is left exactly when C is false.
DoWhileIsBodyThenTest ==
    (run.active /\ run.function.body.tag = "DoWhile") =>
        /\ DoWhileShape
        /\ AtLoopGuard => (GuardBreaks <=> ~Holds(EvalIR(run.function.body.condition, run.env)))

\* The shape alone holds: what fails is the test.
ForShapeHolds == (run.active /\ run.function.body.tag = "For") => ForShape
DoWhileShapeHolds == (run.active /\ run.function.body.tag = "DoWhile") => DoWhileShape

(***************************************************************************)
(* Properties of the declaration assemblers.                               *)
(***************************************************************************)
\* pub const NAME : T = V ;
ConstantDeclaration(field) ==
    Q(<<"pub", "const">>) \o <<ToUpperSnake(format_expression(field.name))>>
    \o Q(<<":">>) \o LowerType(field.field_type) \o Q(<<"=">>)
    \o LowerExpr(field.initial_value) \o Q(<<";">>)

ConstantFields(fields) == SelectSeq(fields, LAMBDA field : field.constant)

\* C11: assemble_constants emits, for the constant fields in their order,
\* one declaration each binding the UPPER_SNAKE_CASE normalized name to the
\* initial value with the lowered type, and none for a non-constant field;
\* it aborts exactly when a constant field has no initial value.
ConstantsDeclaredOnce ==
    Called("assemble_constants") =>
        LET constants == ConstantFields(arg.fields)
        IN  IF \E i \in DOMAIN constants : constants[i].initial_value = None
            THEN status = "aborted" /\ out = <<>>
            ELSE /\ status = "done"
                 /\ out = Concat([i \in DOMAIN constants |-> ConstantDeclaration(constants[i])])
                          \o Blank
                 /\ Cardinality({i \in DOMAIN out : out[i] = <<"const">>}) = Len(constants)

\* Reached: a constant and a non-constant field, one declaration emitted.
ConstantDeclared ==
    /\ Called("assemble_constants") /\ status = "done"
    /\ Len(arg.fields) = 2
    /\ arg.fields[1].constant /\ ~arg.fields[2].constant
    /\ arg.fields[1].name = <<"t","o","t","a","l","S","u","p","p","l","y">>

\* Reached: a constant field with no initial value aborts the call.
ConstantWithoutValueAborts ==
    /\ Called("assemble_constants") /\ status = "aborted"
    /\ \E i \in DOMAIN arg.fields : arg.fields[i].constant /\ arg.fields[i].initial_value = None

\* The fields of all the events of a list, in order.
AllEventFields(events) == Concat([i \in DOMAIN events |-> events[i].fields])

\* The positions of the `name : type` entries of the output, in order.
RECURSIVE Positions(_, _, _)
Positions(ts, token, i) ==
    IF i > Len(ts) THEN <<>>
    ELSE IF ts[i] = token THEN <<i>> \o Positions(ts, token, i + 1)
    ELSE Positions(ts, token, i + 1)

\* The entry whose `:` is at position p is preceded by #[ink(topic)].
HasTopicMarker(ts, p) ==
    /\ p > 8
    /\ SubSeq(ts, p - 8, p - 2) = Q(<<"#", "[", "ink", "(", "topic", ")", "]">>)

\* C12: the emitted event types hold one entry per event field, in the
\* order of the field lists, and an entry carries the topic marker exactly
\* when its field is indexed.
TopicMarkerIffIndexed ==
    Called("assemble_events") =>
        LET fields == AllEventFields(arg.events)
            entries == Positions(out, <<":">>, 1)
        IN  /\ status = "done"
            /\ Len(entries) = Len(fields)
            /\ \A k \in DOMAIN fields :
                  /\ out[entries[k] - 1] = format_expression(fields[k].name)
                  /\ HasTopicMarker(out, entries[k]) <=> fields[k].indexed
            /\ Len(Positions(out, <<"topic">>, 1)) =
                  Cardinality({k \in DOMAIN fields : fields[k].indexed})

\* Reached: an event with an indexed field after a field that is not.
IndexedAfterPlainField ==
    /\ Called("assemble_events") /\ status = "done"
    /\ Len(arg.events) = 2
    /\ Len(arg.events[1].fields) = 2
    /\ ~arg.events[1].fields[1].indexed /\ arg.events[1].fields[2].indexed

\* C13: two assemble_impl calls on equal contracts return identical token
\* streams.
AssemblyDeterministic ==
    (Called("assemble_impl") /\ prev.op = "assemble_impl" /\ arg = prev.arg) =>
        (status = prev.status /\ out = prev.out)

\* With at most one import the two calls do agree.
AssemblyDeterministicUpToImports ==
    (Called("assemble_impl") /\ prev.op = "assemble_impl" /\ arg = prev.arg
        /\ Cardinality(arg.contract.imports) <= 1) =>
        (status = prev.status /\ out = prev.out)

(***************************************************************************)
(* Properties of the modifier wrappers.                                    *)
(***************************************************************************)
IsBody(token) == token = <<"body">> \/ token = <<"b","o","d","y">>
IsInstance(token) == token = <<"instance">> \/ token = <<"i","n","s","t","a","n","c","e">>

\* The tokens between the braces of the k-th wrapper of a modifier output.
WrapperBody(ts, k) ==
    LET start == Positions(ts, <<"modifier_definition">>, 1)[k]
        open == Min({j \in start..Len(ts) : ts[j] = <<"{">>})
        close == MatchClose(ts, open + 1, 0)
    IN  SubSeq(ts, open + 1, close - 1)

\* The positions of a wrapper body where the continuation is called on the
\* instance: body ( instance )
InvocationSites(ts) ==
    {p \in 1..(Len(ts) - 3) :
        /\ IsBody(ts[p]) /\ ts[p + 1] = <<"(">>
        /\ IsInstance(ts[p + 2]) /\ ts[p + 3] = <<")">>}

\* The call at p is what the wrapper returns: its tail expression or the
\* operand of a return.
ReturnedUnchanged(ts, p) ==
    \/ p + 3 = Len(ts)
    \/ p > 1 /\ ts[p - 1] = <<"return">>

PlaceholderAt(modifier) == {j \in DOMAIN modifier.statements : modifier.statements[j] = Placeholder}

ContinuationNeverInvoked ==
    Called("assemble_modifiers") =>
        \A k \in DOMAIN arg.modifiers :
            /\ InvocationSites(WrapperBody(out, k)) = {}
            /\ WrapperBody(out, k) =
                  Concat([i \in DOMAIN arg.modifiers[k].statements |->
                            IF arg.modifiers[k].statements[i] = Placeholder
                            THEN Q(<<";">>)
                            ELSE LowerStmt(arg.modifiers[k].statements[i])])

(***************************************************************************)
(* Properties of the statement lowerings.                                  *)
(***************************************************************************)
NamedEventCall(expression) ==
    expression.tag = "FunctionCall" /\ expression.function.tag = "Variable"

\* C15: the emission of a call of a named event E lowers to
\* self._emit_<snake(E)>(a1, .., an); with the lowered arguments in their
\* order; an emission of any other shape aborts and leaves no output.
EmitLowersToHelperCall ==
    (Called("lower_statement") /\ arg.statement.tag = "Emit") =>
        LET e == arg.statement.expression
        IN  IF NamedEventCall(e) /\ \A i \in DOMAIN e.args : ~Aborted(LowerExpr(e.args[i]))
            THEN /\ status = "done"
                 /\ SubSeq(out, 1, 2) = Q(<<"self", ".">>)
                 /\ out[3] = <<"_","e","m","i","t","_">> \o ToSnake(e.function.name)
                 /\ out[4] = <<"(">>
                 /\ SubSeq(out, 5, Len(out) - 2) =
                        Separated([i \in DOMAIN e.args |-> LowerExpr(e.args[i])], <<",">>)
                 /\ SubSeq(out, Len(out) - 1, Len(out)) = Q(<<")", ";">>)
            ELSE status = "aborted" /\ out = <<>>

EmitOfTwoArguments ==
    /\ Called("lower_statement") /\ arg.statement.tag = "Emit"
    /\ NamedEventCall(arg.statement.expression)
    /\ Len(arg.statement.expression.args) = 2
    /\ arg.statement.expression.args[1] # arg.statement.expression.args[2]
    /\ status = "done"

EmitOfOtherShapeAborts ==
    /\ Called("lower_statement") /\ arg.statement.tag = "Emit"
    /\ ~NamedEventCall(arg.statement.expression)
    /\ status = "aborted"

\* C16: a Return lowers to `return Ok ( v )` with v the lowered value, and a
\* Return with no value to `return Ok ( ( ) )`.
ReturnWrapsValueOrUnit ==
    (Called("lower_statement") /\ arg.statement.tag = "Return" /\ status = "done") =>
        out = Q(<<"return", "Ok", "(">>)
              \o (IF arg.statement.expression = None
                  THEN Q(<<"(", ")">>)
                  ELSE LowerExpr(arg.statement.expression))
              \o Q(<<")">>)

\* A Return of a value does wrap the lowered value.
ReturnOfValueWrapsValue ==
    (Called("lower_statement") /\ arg.statement.tag = "Return"
        /\ arg.statement.expression # None) =>
        /\ status = "done"
        /\ out = Q(<<"return", "Ok", "(">>) \o LowerExpr(arg.statement.expression) \o Q(<<")">>)

\* A Return with no value wraps nothing.
ReturnOfNothingWrapsNothing ==
    (Called("lower_statement") /\ arg.statement = Return(None)) =>
        status = "done" /\ out = Q(<<"return", "Ok", "(", ")">>)

(***************************************************************************)
(* Properties of storage access.                                           *)
(***************************************************************************)
Accessor == Q(<<"self", ".", "data", "(", ")", ".">>)

\* The positions of an output where `self .` stands.
SelfAccesses(ts) == {p \in 1..(Len(ts) - 1) : ts[p] = <<"self">> /\ ts[p + 1] = <<".">>}

ThroughAccessor(ts, p) == p + 5 <= Len(ts) /\ SubSeq(ts, p, p + 5) = Accessor

InitialisedFields(fields) == SelectSeq(fields, ConstructorFilter)

\* C17: the field initialisations of the constructor write the fields
\* through the storage accessor: every `self .` of the constructor is the
\* start of `self . data ( ) .`, one for each initialised field.
ConstructorWritesThroughAccessor ==
    (Called("assemble_constructor") /\ status = "done") =>
        /\ \A p \in SelfAccesses(out) : ThroughAccessor(out, p)
        /\ \A i \in DOMAIN InitialisedFields(arg.fields) :
              \E p \in SelfAccesses(out) :
                  /\ ThroughAccessor(out, p)
                  /\ out[p + 6] = ToSnake(InitialisedFields(arg.fields)[i].name)
                  /\ out[p + 7] = <<"=">>

\* What the constructor does emit for an initialised field: self . name =
ConstructorWritesFieldDirectly ==
    (Called("assemble_constructor") /\ status = "done") =>
        \A i \in DOMAIN InitialisedFields(arg.fields) :
            \E p \in SelfAccesses(out) :
                /\ out[p + 2] = ToSnake(InitialisedFields(arg.fields)[i].name)
                /\ out[p + 3] = <<"=">>

\* A storage variable lowers to the accessor followed by its snake_case
\* name, any other variable to the bare snake_case name.
VariableLowersThroughAccessor ==
    (Called("lower_expression") /\ arg.expression.tag = "Variable") =>
        /\ status = "done"
        /\ out = (IF arg.expression.is_storage THEN Accessor ELSE <<>>)
                 \o <<ToSnake(arg.expression.name)>>

(***************************************************************************)
(* Properties of the library assembler.                                    *)
(***************************************************************************)
\* The positions of the functions of an output: the `fn` tokens.
FunctionSites(ts) == {p \in 1..Len(ts) : ts[p] = <<"fn">>}

\* The parameters of the function at p: what stands between the
\* parentheses after its name.
SignatureParams(ts, p) == SubSeq(ts, p + 3, MatchClose(ts, p + 3, 0) - 1)

HasReceiver(params) == \E i \in DOMAIN params : params[i] = <<"self">>

\* C18: no function a library is assembled to takes a receiver, whether
\* external or not.
LibraryFunctionsAreFree ==
    Called("assemble_library") =>
        /\ status = "done"
        /\ Cardinality(FunctionSites(out)) = Len(arg.library.functions)
        /\ \A p \in FunctionSites(out) : ~HasReceiver(SignatureParams(out, p))

\* What the library functions do take: every one of them has `& self` or
\* `& mut self` as its first parameter.
LibraryFunctionsTakeReceiver ==
    Called("assemble_library") =>
        /\ status = "done"
        /\ Cardinality(FunctionSites(out)) = Len(arg.library.functions)
        /\ \A p \in FunctionSites(out) :
              \/ SubSeq(out, p + 3, p + 4) = Q(<<"&", "self">>)
              \/ SubSeq(out, p + 3, p + 5) = Q(<<"&", "mut", "self">>)

(***************************************************************************)
(* Properties of the storage struct.                                       *)
(***************************************************************************)
ReservedSlot == Q(<<"pub", "_reserved", ":", "Option", "<", "(", ")", ">", ",">>)

\* The members of the struct of an assemble_data_struct output: what stands
\* between its braces.
DataMembers(ts) ==
    SubSeq(ts, Min({p \in 1..Len(ts) : ts[p] = <<"{">>}) + 1, Len(ts) - 1)

StoredFields(fields) == SelectSeq(fields, LAMBDA field : ~field.constant)

\* C19: the members of the storage struct are the non-constant fields in
\* their order, each as `pub name : type ,`, followed by the one reserved
\* optional slot, which closes the struct.
DataStructHoldsStoredFields ==
    Called("assemble_data_struct") =>
        LET members == DataMembers(out)
            entries == Positions(members, <<"pub">>, 1)
            stored == StoredFields(arg.fields)
        IN  /\ status = "done"
            /\ out[Len(out)] = <<"}">>
            /\ Len(entries) = Len(stored) + 1
            /\ \A k \in DOMAIN stored :
                  SubSeq(members, entries[k], entries[k + 1] - 1) =
                      Q(<<"pub">>) \o <<ToSnake(stored[k].name)>> \o Q(<<":">>)
                      \o LowerType(stored[k].field_type) \o Q(<<",">>)
            /\ SubSeq(members, entries[Len(stored) + 1], Len(members)) = ReservedSlot
            /\ Len(Positions(out, <<"_reserved">>, 1)) = 1

DataStructOfMixedFields ==
    /\ Called("assemble_data_struct") /\ status = "done"
    /\ Len(arg.fields) = 2
    /\ arg.fields[1].constant /\ ~arg.fields[2].constant

DataStructOfConstantsOnly ==
    /\ Called("assemble_data_struct") /\ status = "done"
    /\ arg.fields # <<>> /\ \A i \in DOMAIN arg.fields : arg.fields[i].constant
    /\ DataMembers(out) = ReservedSlot

(***************************************************************************)
(* Properties of the compound assignment.                                  *)
(***************************************************************************)
IsMapAssignAdd(e) == e.tag = "AssignAdd" /\ e.variable.tag = "MappingSubscript"

\* C20: an add-assignment to a map slot lowers to an insert on the map,
\* m . insert ( .. ), and never to an index store m [ .. ] = or m [ .. ] +=.
MapAssignAddLowersToInsert ==
    (Called("lower_expression") /\ IsMapAssignAdd(arg.expression)) =>
        LET map == LowerExpr(arg.expression.variable.array)
        IN  /\ status = "done"
            /\ SubSeq(out, 1, Len(map) + 3) = map \o Q(<<".", "insert", "(">>)
            /\ ~HasToken(out, "[") /\ ~HasToken(out, "+=") /\ ~HasToken(out, "=")

\* What an add-assignment to a map slot does lower to: the index
\* expression of the slot, its keys joined by `+`, then += and the value.
MapAssignAddIsIndexStore ==
    (Called("lower_expression") /\ IsMapAssignAdd(arg.expression)) =>
        LET e == arg.expression
        IN  /\ status = "done"
            /\ out = LowerExpr(e.variable.array) \o Q(<<"[">>)
                     \o Separated([i \in DOMAIN e.variable.indices |->
                                      LowerExpr(e.variable.indices[i])], <<"+">>)
                     \o Q(<<"]", "+=">>) \o LowerExpr(e.value)

(***************************************************************************)
(* Properties of continue in a lowered for statement.                      *)
(***************************************************************************)
\* The run of for (i = 0; i < n; i++) { g(); if (p) continue; }
ContinueRun == run.active /\ run.function.body = ContinueLoop

\* C21: every iteration of a lowered for statement that passes the test
\* and stays in the loop runs the post-statement once before the next
\* test, also when the body ends the iteration with continue: at every
\* test the counter has been incremented once for every body run so far.
PostStatementEndsEveryIteration ==
    (ContinueRun /\ AtLoopGuard) => run.env[<<"i">>].v = Len(run.trace)

\* The iterations that do not continue do end with the post-statement.
PostStatementEndsPlainIteration ==
    (ContinueRun /\ AtLoopGuard /\ ~Holds(run.env[<<"p">>])) =>
        run.env[<<"i">>].v = Len(run.trace)

\* After continue the post-statement never runs: the counter stays 0.
ContinueSkipsPostStatement ==
    (ContinueRun /\ Holds(run.env[<<"p">>]) /\ <<"i">> \in DOMAIN run.env) =>
        run.env[<<"i">>].v = 0

\* Reached: the second test of a run that continued after its first body.
ContinuedToNextTest ==
    /\ ContinueRun /\ AtLoopGuard /\ Holds(run.env[<<"p">>])
    /\ Len(run.trace) = 2

\* Reached: the third test of a run that never continues.
PlainIterationsCounted ==
    /\ ContinueRun /\ AtLoopGuard /\ ~Holds(run.env[<<"p">>])
    /\ Len(run.trace) = 2 /\ run.env[<<"i">>].v = 2

(***************************************************************************)
(* Properties of the variable definition.                                  *)
(***************************************************************************)
\* C22: a variable definition lowers to its declaration, assigned the
\* initial value when there is one, and to the declaration alone when
\* there is none.
VariableDefinitionKeepsDeclaration ==
    (Called("lower_statement") /\ arg.statement.tag = "VariableDefinition") =>
        LET declaration == LowerExpr(arg.statement.definition)
        IN  /\ status = "done"
            /\ out = declaration
                     \o (IF arg.statement.initial_value = None THEN <<>>
                         ELSE Q(<<"=">>) \o LowerExpr(arg.statement.initial_value))
                     \o Q(<<";">>)

\* With an initial value the output is the declaration assigned the value.
InitialisedDefinitionKeepsDeclaration ==
    (Called("lower_statement") /\ arg.statement.tag = "VariableDefinition"
        /\ arg.statement.initial_value # None) =>
        /\ status = "done"
        /\ out = LowerExpr(arg.statement.definition) \o Q(<<"=">>)
                 \o LowerExpr(arg.statement.initial_value) \o Q(<<";">>)

\* Without an initial value nothing but `;` is left.
BareDefinitionLeavesSemicolon ==
    (Called("lower_statement") /\ arg.statement.tag = "VariableDefinition"
        /\ arg.statement.initial_value = None) =>
        status = "done" /\ out = Q(<<";">>)

(***************************************************************************)
(* Properties of the binary operations.                                    *)
(***************************************************************************)
\* The Rust operator of the operation a binary variant stands for.
SourceOperator(tag) ==
    CASE tag = "Equal"     -> "=="
      [] tag = "NotEqual"  -> "!="
      [] tag = "Less"      -> "<"
      [] tag = "MoreEqual" -> ">="
      [] tag = "Or"        -> "||"
      [] tag = "Subtract"  -> "-"

AssignmentOperators == {<<"=">>, <<"+=">>, <<"-=">>}

\* C23: a binary operation lowers to its own operator between the lowered
\* left and right operands, and the output assigns to neither operand.
BinaryLowersToSameOperator ==
    (Called("lower_expression") /\ arg.expression.tag \in BinaryTags) =>
        /\ status = "done"
        /\ out = LowerExpr(arg.expression.left)
                 \o Q(<<SourceOperator(arg.expression.tag)>>)
                 \o LowerExpr(arg.expression.right)
        /\ \A i \in DOMAIN out : out[i] \notin AssignmentOperators

\* The five variants other than Subtract do lower to their operator.
ComparisonLowersToSameOperator ==
    (Called("lower_expression") /\ arg.expression.tag \in BinaryTags \ {"Subtract"}) =>
        /\ status = "done"
        /\ out = LowerExpr(arg.expression.left)
                 \o Q(<<SourceOperator(arg.expression.tag)>>)
                 \o LowerExpr(arg.expression.right)
        /\ \A i \in DOMAIN out : out[i] \notin AssignmentOperators

\* A subtraction lowers to the assignment left -= right.
SubtractLowersToAssignment ==
    (Called("lower_expression") /\ arg.expression.tag = "Subtract") =>
        /\ status = "done"
        /\ out = LowerExpr(arg.expression.left) \o Q(<<"-=">>) \o LowerExpr(arg.expression.right)

(***************************************************************************)
(* Properties of the placement of the functions.                           *)
(***************************************************************************)
\* The position of the n-th token of the given text.
Nth(ts, text, n) ==
    CHOOSE p \in DOMAIN ts :
        /\ ts[p] = <<text>>
        /\ Cardinality({q \in 1..(p - 1) : ts[q] = <<text>>}) = n - 1

\* What stands between the braces of the first block opened after a
\* position.
BlockAfter(ts, anchor) ==
    LET open == OpenAfter(ts, anchor)
    IN  SubSeq(ts, open + 1, MatchClose(ts, open + 1, 0) - 1)

\* Whether the function at p of a block has a body: its signature ends in
\* `{` and not in `;`.
HasBody(block, p) ==
    LET close == MatchClose(block, p + 3, 0)
    IN  block[Min({j \in close..Len(block) : block[j] \in {<<"{">>, <<";">>}})] = <<"{">>

\* The number of functions of a block with the given name, with or without
\* a body.
Definitions(block, name, body) ==
    Cardinality({p \in FunctionSites(block) : block[p + 1] = name /\ HasBody(block, p) = body})

\* The name a function is implemented under, and the name its header is
\* declared under.
ImplName(header) ==
    IF header.external THEN format_expression(header.name) ELSE <<"_">> \o ToSnake(header.name)
HeaderName(header) ==
    IF header.external THEN format_expression(header.name)
    ELSE <<"_">> \o format_expression(header.name)

One(condition) == IF condition THEN 1 ELSE 0

\* The three blocks of the impl module.
CapabilityImpl(ts) == BlockAfter(ts, Nth(ts, "impl", 1))
InternalTrait(ts) == BlockAfter(ts, Nth(ts, "trait", 1))
InternalImpl(ts) == BlockAfter(ts, Nth(ts, "impl", 2))

HeaderNames(functions, external) ==
    {HeaderName(functions[i].header) :
        i \in {k \in DOMAIN functions : functions[k].header.external = external}}

\* C24: the impl module implements every external function once in the
\* implementation of the contract's trait and every other function once in
\* the implementation of Internal, and nowhere else; the Internal trait
\* declares the headers of exactly the functions that are not external
\* (next to the emit helpers), and the trait module declares the headers of
\* exactly the external functions (next to the getters), without bodies.
FunctionsPlacedByVisibility ==
    /\ Called("assemble_impl") =>
          /\ status = "done"
          /\ \A i \in DOMAIN arg.contract.functions :
                LET header == arg.contract.functions[i].header
                IN  /\ Definitions(CapabilityImpl(out), ImplName(header), TRUE)
                           = One(header.external)
                    /\ Definitions(InternalImpl(out), ImplName(header), TRUE)
                           = One(~header.external)
                    /\ Definitions(InternalTrait(out), HeaderName(header), FALSE)
                           = One(~header.external)
                    /\ Definitions(CapabilityImpl(out), ImplName(header), FALSE) = 0
                    /\ Definitions(InternalImpl(out), ImplName(header), FALSE) = 0
          /\ \A p \in FunctionSites(InternalTrait(out)) :
                /\ ~HasBody(InternalTrait(out), p)
                /\ \/ InternalTrait(out)[p + 1] \in HeaderNames(arg.contract.functions, FALSE)
                   \/ \E e \in DOMAIN arg.contract.events :
                         <<InternalTrait(out)[p + 1]>> = EmitFunctionName(arg.contract.events[e].name)
    /\ Called("assemble_trait") =>
          LET trait == BlockAfter(out, Nth(out, "trait", 1))
          IN  /\ status = "done"
              /\ \A i \in DOMAIN arg.contract.functions :
                    Definitions(trait, HeaderName(arg.contract.functions[i].header), FALSE)
                        = One(arg.contract.functions[i].header.external)
              /\ \A p \in FunctionSites(trait) :
                    /\ ~HasBody(trait, p)
                    /\ \/ trait[p + 1] \in HeaderNames(arg.contract.functions, TRUE)
                       \/ \E f \in DOMAIN arg.contract.fields :
                             trait[p + 1] = ToSnake(arg.contract.fields[f].name)

ImplOfBothVisibilities ==
    /\ Called("assemble_impl") /\ status = "done"
    /\ \E i, j \in DOMAIN arg.contract.functions :
          /\ arg.contract.functions[i].header.external
          /\ ~arg.contract.functions[j].header.external

TraitOfBothVisibilities ==
    /\ Called("assemble_trait") /\ status = "done"
    /\ \E i, j \in DOMAIN arg.contract.functions :
          /\ arg.contract.functions[i].header.external
          /\ ~arg.contract.functions[j].header.external

(***************************************************************************)
(* Properties of the emit helpers.                                         *)
(***************************************************************************)
\* The helper the lowering of `emit E(..)` calls.
CalledHelper(event) == LowerStmt(Emit(FunctionCall(Variable(event.name, FALSE), <<>>)))[3]

\* The parameters of a helper: the receiver, then one parameter for every
\* field of the event in order, named or not.
HelperParams(event, named) ==
    Q(<<"&", "self", ",">>)
    \o Concat([i \in DOMAIN event.fields |->
            (IF named THEN <<format_expression(event.fields[i].name)>> ELSE Q(<<"_">>))
            \o Q(<<":">>) \o LowerType(event.fields[i].field_type) \o Q(<<",">>)])

\* The block holds one function of the helper's name, with or without a
\* body, and it takes the helper's parameters.
HelperIn(block, event, body, named) ==
    /\ Definitions(block, CalledHelper(event), body) = 1
    /\ Definitions(block, CalledHelper(event), ~body) = 0
    /\ \A p \in FunctionSites(block) :
          block[p + 1] = CalledHelper(event) =>
              SignatureParams(block, p) = HelperParams(event, named)

\* The implementation of Internal for the contract in the contract artifact.
ContractInternalImpl(ts) == BlockAfter(ts, Nth(ts, "Internal", 1))

\* C25: for every event the helper its emission calls is the helper the
\* Internal trait declares, the helper Internal implements by default and
\* the helper the contract implements, each with one parameter for every
\* field of the event in order.
EmitHelperNamesAgree ==
    /\ Called("assemble_impl") =>
          \A e \in DOMAIN arg.contract.events :
              /\ HelperIn(InternalTrait(out), arg.contract.events[e], FALSE, TRUE)
              /\ HelperIn(InternalImpl(out), arg.contract.events[e], TRUE, FALSE)
    /\ Called("assemble_contract") =>
          /\ status = "done"
          /\ \A e \in DOMAIN arg.contract.events :
                HelperIn(ContractInternalImpl(out), arg.contract.events[e], TRUE, TRUE)

EmitHelpersDeclared ==
    /\ Called("assemble_impl") /\ status = "done"
    /\ Len(arg.contract.events) = 2

EmitHelpersImplemented ==
    /\ Called("assemble_contract") /\ status = "done"
    /\ Len(arg.contract.events) = 2

(***************************************************************************)
(* Properties of the signatures.                                           *)
(***************************************************************************)
\* The parts of the signature of the first function of an output.
SignatureName(ts) == ts[Nth(ts, "fn", 1) + 1]
SignatureList(ts) == SignatureParams(ts, Nth(ts, "fn", 1))
SignatureResult(ts) ==
    LET arrow == Nth(ts, "->", 1)
    IN  SubSeq(ts, arrow + 1,
               Min({j \in arrow..Len(ts) : ts[j] \in {<<"{">>, <<";">>}}) - 1)

HeaderThenImplementation ==
    /\ Called("assemble_functions") /\ prev.op = "assemble_function_headers"
    /\ status = "done" /\ prev.status = "done"

\* C26: the header and the implementation of a function carry the same
\* name, the same receiver and parameters and the same return type.
HeaderMatchesImplementation ==
    HeaderThenImplementation =>
        /\ SignatureName(out) = SignatureName(prev.out)
        /\ SignatureList(out) = SignatureList(prev.out)
        /\ SignatureResult(out) = SignatureResult(prev.out)

\* They do for an external function, and for any function whose name is
\* not a reserved word.
HeaderMatchesImplementationOfPlainName ==
    (HeaderThenImplementation
        /\ (arg.function.header.external \/ arg.function.header.name \notin RUST_KEYWORDS)) =>
        /\ SignatureName(out) = SignatureName(prev.out)
        /\ SignatureList(out) = SignatureList(prev.out)
        /\ SignatureResult(out) = SignatureResult(prev.out)

\* Receiver, parameters and return type agree for every function.
HeaderMatchesImplementationButName ==
    HeaderThenImplementation =>
        /\ SignatureList(out) = SignatureList(prev.out)
        /\ SignatureResult(out) = SignatureResult(prev.out)

(***************************************************************************)
(* Properties of the keys of a map slot.                                   *)
(***************************************************************************)
\* The key expression of a lowered read m [ key ].
ReadKey(ts) ==
    LET open == Nth(ts, "[", 1)
    IN  SubSeq(ts, open + 1, MatchClose(ts, open + 1, 0) - 1)

\* The key expression of a lowered write m . insert ( & ( key ) , & v ).
WriteKey(ts) ==
    LET open == Nth(ts, "insert", 1) + 3
    IN  SubSeq(ts, open + 1, MatchClose(ts, open + 1, 0) - 1)

\* The lowered write to the slot an expression reads.
WriteTo(slot) == LowerExpr(Assign(slot, NumberLiteral(<<"1">>)))

\* C27: the key of a lowered read of a map slot is the key of a lowered
\* write to the slot: the keys k1, .., kn in order, as a tuple.
ReadKeyIsWriteKey ==
    (Called("lower_expression") /\ arg.expression.tag = "MappingSubscript") =>
        /\ status = "done"
        /\ ReadKey(out) = WriteKey(WriteTo(arg.expression))
        /\ WriteKey(WriteTo(arg.expression)) =
              Separated([i \in DOMAIN arg.expression.indices |->
                            LowerExpr(arg.expression.indices[i])], <<",">>)

\* With one key the two keys are the same expression.
ReadKeyIsWriteKeyForOneKey ==
    (Called("lower_expression") /\ arg.expression.tag = "MappingSubscript"
        /\ Len(arg.expression.indices) = 1) =>
        /\ status = "done"
        /\ ReadKey(out) = WriteKey(WriteTo(arg.expression))

\* With several keys the read adds the keys up.
ReadKeyIsSumOfKeys ==
    (Called("lower_expression") /\ arg.expression.tag = "MappingSubscript") =>
        ReadKey(out) = Separated([i \in DOMAIN arg.expression.indices |->
                                     LowerExpr(arg.expression.indices[i])], <<"+">>)

(***************************************************************************)
(* Properties of the fall-through path of an emitted function.             *)
(***************************************************************************)
\* What stands between the braces of the emitted function.
EmittedBody(ts) == BlockAfter(ts, Nth(ts, "->", 1))

EndsWith(ts, tail) ==
    Len(tail) <= Len(ts) /\ SubSeq(ts, Len(ts) - Len(tail) + 1, Len(ts)) = tail

\* Where the lowered statement of the function starts in its emitted body.
StatementStart(body, statement) ==
    Min({p \in 1..(Len(body) + 1) :
            p + Len(statement) - 1 <= Len(body)
            /\ SubSeq(body, p, p + Len(statement) - 1) = statement}
        \cup {Len(body) + 1})

\* Ok(()) of no return parameters, Ok(a) of one named return parameter and
\* Ok((a, b)) of several.
SuccessResult(return_params) ==
    LET names == Separated([i \in DOMAIN return_params |->
                               Ident(format_expression(return_params[i].name))], <<",">>)
    IN  IF return_params = <<>> THEN Q(<<"Ok", "(", "(", ")", ")">>)
        ELSE IF Len(return_params) > 1
             THEN Q(<<"Ok", "(", "(">>) \o names \o Q(<<")", ")">>)
             ELSE Q(<<"Ok", "(">>) \o names \o Q(<<")">>)

\* The places of the emitted body that declare the name with its default.
DefaultDeclarations(body, name) ==
    LET declaration == Q(<<"let", "mut">>) \o Ident(format_expression(name))
                       \o Q(<<"=", "Default", "::", "default", "(", ")", ";">>)
    IN  {p \in DOMAIN body :
            p + Len(declaration) - 1 <= Len(body)
            /\ SubSeq(body, p, p + Len(declaration) - 1) = declaration}

NamedReturns(return_params) == return_params # <<>> /\ return_params[1].name # <<"_">>

\* Every named return parameter is declared once, before the statement.
DeclaredOnceBefore(body, return_params, statement) ==
    \A i \in DOMAIN return_params :
        return_params[i].name # <<"_">> =>
            /\ Cardinality(DefaultDeclarations(body, return_params[i].name)) = 1
            /\ \A p \in DefaultDeclarations(body, return_params[i].name) :
                   p < StatementStart(body, statement)

ImplementationAssembled == Called("assemble_functions") /\ status = "done"

\* C28: the body of an emitted function ends with a result: Ok(()) when
\* the function has no return parameters; with named return parameters
\* each is declared once with its default before the statements and the
\* body of a function without a return statement ends with Ok of them.
FunctionBodyYieldsResult ==
    ImplementationAssembled =>
        LET return_params == arg.function.header.return_params
            body == EmittedBody(out)
        IN  /\ return_params = <<>> => EndsWith(body, SuccessResult(return_params))
            /\ NamedReturns(return_params) =>
                  /\ DeclaredOnceBefore(body, return_params, LowerStmt(arg.function.body))
                  /\ EndsWith(body, SuccessResult(return_params))

\* The body of a function without return parameters ends with Ok(()).
UnitBodyEndsWithSuccess ==
    (ImplementationAssembled /\ arg.function.header.return_params = <<>>) =>
        EndsWith(EmittedBody(out), SuccessResult(<<>>))

\* The named return parameters are declared once before the statements.
NamedReturnsDeclaredOnce ==
    (ImplementationAssembled /\ NamedReturns(arg.function.header.return_params)) =>
        DeclaredOnceBefore(EmittedBody(out), arg.function.header.return_params,
                           LowerStmt(arg.function.body))

\* The body of a function with return parameters ends with its statement.
ReturningBodyEndsWithStatement ==
    (ImplementationAssembled /\ arg.function.header.return_params # <<>>) =>
        /\ EndsWith(EmittedBody(out), LowerStmt(arg.function.body))
        /\ ~HasToken(EmittedBody(out), "Ok")

(***************************************************************************)
(* Properties of the field initialisations of the constructor.             *)
(***************************************************************************)
\* The places of an output where `self . name =` stands: the field is
\* assigned as the constructor assigns its fields.
FieldAssignments(ts, name) ==
    {p \in SelfAccesses(ts) :
        p + 3 <= Len(ts) /\ ts[p + 2] = ToSnake(name) /\ ts[p + 3] = <<"=">>}

\* Whether the assignment at p stores the lowered value and ends there.
AssignsValue(ts, p, value) ==
    LET tokens == LowerExpr(value) \o Q(<<";">>)
    IN  p + 3 + Len(tokens) <= Len(ts)
        /\ SubSeq(ts, p + 4, p + 3 + Len(tokens)) = tokens

\* The brace that opens the closure of the constructor.
ClosureOpen(ts) == Nth(ts, "|", 2) + 1

\* The last position of the lowered constructor body, which stands at the
\* start of the closure.
BodyEnd(ts, constructor) == ClosureOpen(ts) + Len(LowerStmt(constructor.body))

ConstructorAssembled == Called("assemble_constructor") /\ status = "done"

\* C29: the constructor assigns every non-constant field with an initial
\* value that value once, assigns no constant field and no field without an
\* initial value, and places the assignments after the lowered body of the
\* constructor in the order of the field declarations.
ConstructorAssignsInitialisedFields ==
    ConstructorAssembled =>
        LET fields == arg.fields
            At(i) == FieldAssignments(out, fields[i].name)
        IN  /\ \A i \in DOMAIN fields :
                  IF fields[i].initial_value # None /\ ~fields[i].constant
                  THEN /\ Cardinality(At(i)) = 1
                       /\ \A p \in At(i) : AssignsValue(out, p, fields[i].initial_value)
                  ELSE At(i) = {}
            /\ SubSeq(out, ClosureOpen(out) + 1, BodyEnd(out, arg.constructor))
                  = LowerStmt(arg.constructor.body)
            /\ \A i \in DOMAIN fields : \A p \in At(i) : p > BodyEnd(out, arg.constructor)
            /\ \A i, j \in DOMAIN fields : \A p \in At(i) : \A q \in At(j) :
                  i < j => p < q

\* Two fields are assigned after the body of a constructor that has one.
TwoFieldsAssignedAfterBody ==
    /\ ConstructorAssembled
    /\ arg.constructor = StoringConstructor
    /\ Len(InitialisedFields(arg.fields)) = 2
    /\ \A i \in DOMAIN arg.fields : FieldAssignments(out, arg.fields[i].name) # {}

\* A constant with an initial value and a field without one stay unassigned.
ConstantAndBareFieldSkipped ==
    /\ ConstructorAssembled
    /\ \E i, j \in DOMAIN arg.fields :
          /\ arg.fields[i].constant /\ arg.fields[i].initial_value # None
          /\ ~arg.fields[j].constant /\ arg.fields[j].initial_value = None
    /\ \A i \in DOMAIN arg.fields : FieldAssignments(out, arg.fields[i].name) = {}

====
